---------------------------- MODULE Spec2Model ----------------------------
(***************************************************************************)
(* Survey Interaction Engine of the Survey Junkie bot (SurveyJunkieBot):   *)
(* the attention-check parser, the answer-bank lookup, the per-kind field  *)
(* resolution of answerCurrentStep and the step loop of answerSurvey.      *)
(* Texts are TLA+ strings; a character is a string of length one.          *)
(***************************************************************************)
EXTENDS Integers, Sequences, FiniteSets, TLC

(***************************************************************************)
(* Characters and the JavaScript string primitives the code uses.          *)
(***************************************************************************)
LowerLetters ==
    {"a","b","c","d","e","f","g","h","i","j","k","l","m",
     "n","o","p","q","r","s","t","u","v","w","x","y","z"}

Digits == {"0","1","2","3","4","5","6","7","8","9"}

\* the regex class \s over the input alphabet
SpaceChars == {" ", "\t", "\n"}

\* the regex class ["'...] of the quote patterns (the input alphabet is ASCII)
QuoteChars == {"\"", "'"}

UpperString == "ABCDEFGHIJKLMNOPQRSTUVWXYZ"
LowerString == "abcdefghijklmnopqrstuvwxyz"

Char(s, i) == SubSeq(s, i, i)

Min(S) == CHOOSE m \in S : \A n \in S : m <= n
Max(S) == CHOOSE m \in S : \A n \in S : m >= n

\* Array.prototype.find over the positions that satisfy its test: the first one, 0 when none
FindFirst(hits) == IF hits = {} THEN 0 ELSE Min(hits)

\* a || b || ... of JavaScript over strings: the first non-empty one
FirstNonEmpty(values) ==
    LET k == FindFirst({i \in 1..Len(values) : values[i] # ""})
    IN  IF k = 0 THEN "" ELSE values[k]

\* String.prototype.toLowerCase, one character
LowerChar(c) ==
    IF \E i \in 1..26 : Char(UpperString, i) = c
    THEN Char(LowerString, CHOOSE i \in 1..26 : Char(UpperString, i) = c)
    ELSE c

RECURSIVE LowerFrom(_, _)
LowerFrom(s, i) ==
    IF i > Len(s) THEN "" ELSE LowerChar(Char(s, i)) \o LowerFrom(s, i + 1)

\* String.prototype.toLowerCase
ToLower(s) == LowerFrom(s, 1)

\* s.startsWith(w, i-1): w occurs in s at (1-based) position i
At(s, i, w) == i >= 1 /\ i + Len(w) - 1 <= Len(s) /\ SubSeq(s, i, i + Len(w) - 1) = w

\* String.prototype.includes
Includes(s, w) == \E i \in 1..(Len(s) - Len(w) + 1) : At(s, i, w)

\* String.prototype.indexOf, 1-based, 0 when absent
IndexOf(s, w) ==
    IF Includes(s, w) THEN Min({i \in 1..(Len(s) - Len(w) + 1) : At(s, i, w)}) ELSE 0

\* String.prototype.trim
Trim(s) ==
    LET keep == {i \in 1..Len(s) : Char(s, i) \notin SpaceChars}
    IN  IF keep = {} THEN "" ELSE SubSeq(s, Min(keep), Max(keep))

IsAlnum(c) == c \in LowerLetters \/ c \in Digits

RECURSIVE CollapseFrom(_, _)
\* replace(/[^a-z0-9]+/g, " "): every maximal run of other characters becomes one space
CollapseFrom(s, i) ==
    IF i > Len(s) THEN ""
    ELSE IF IsAlnum(Char(s, i)) THEN Char(s, i) \o CollapseFrom(s, i + 1)
    ELSE IF i > 1 /\ ~IsAlnum(Char(s, i - 1)) THEN CollapseFrom(s, i + 1)
    ELSE " " \o CollapseFrom(s, i + 1)

\* normalize = (text ?? "").toLowerCase().replace(/[^a-z0-9]+/g, " ").trim()
normalize(text) == Trim(CollapseFrom(ToLower(text), 1))

RECURSIVE Split(_, _)
\* String.prototype.split with a non-empty separator
Split(s, sep) ==
    LET k == IndexOf(s, sep)
    IN  IF k = 0 THEN <<s>>
        ELSE <<SubSeq(s, 1, k - 1)>> \o Split(SubSeq(s, k + Len(sep), Len(s)), sep)

\* Array.prototype.includes on a sequence
Member(seq, v) == \E i \in 1..Len(seq) : seq[i] = v

\* push unless already present
PushUnique(seq, v) == IF Member(seq, v) THEN seq ELSE Append(seq, v)

RECURSIVE ParseIntFrom(_, _, _)
ParseIntFrom(s, i, acc) ==
    IF i > Len(s) THEN acc
    ELSE ParseIntFrom(s, i + 1,
           acc * 10 + (CHOOSE d \in 0..9 : Char("0123456789", d + 1) = Char(s, i)))

\* Number.parseInt(digits, 10) of a capture of \d+
ParseInt(s) == ParseIntFrom(s, 1, 0)

\* first position >= i holding no \s (Len(s)+1 at the end): the greedy \s*
SkipSpaces(s, i) ==
    LET stop == {j \in i..Len(s) : Char(s, j) \notin SpaceChars}
    IN  IF stop = {} THEN Len(s) + 1 ELSE Min(stop)

\* the greedy run of a character class starting at i: its end position (i-1 when empty)
RunEnd(s, i, class) ==
    LET stop == {j \in i..Len(s) : Char(s, j) \notin class}
    IN  IF stop = {} THEN Len(s) ELSE Min(stop) - 1

\* position after the first word of ws that occurs at i, or 0
AfterWord(s, i, ws) ==
    IF \E k \in 1..Len(ws) : At(s, i, ws[k])
    THEN i + Len(ws[CHOOSE k \in 1..Len(ws) : At(s, i, ws[k])])
    ELSE 0

(***************************************************************************)
(* detectAttentionInstruction: the attention-check parser.                 *)
(***************************************************************************)
AttentionWords ==
    <<"attention", "quality check", "instruction check", "bot check", "captcha",
      "consistency check", "control question", "human", "verification">>

PoliteVerbs == <<"select", "choose", "pick", "mark", "enter", "type">>

PolitePhrases ==
    <<"for this question", "to show you are", "just to check", "as a check",
      "for verification">>

TypeVerbs == <<"type", "enter", "write">>

SelectVerbs == <<"select", "choose", "pick", "mark">>

\* a slip: the list without its last phrase
explicitPhrasesShort ==
    <<"strongly agree", "strongly disagree", "agree", "disagree", "neutral",
      "none of the above", "all of the above", "i am paying attention",
      "i am human", "i read the instructions", "i read the question">>

\* explicitPhrases (lines 865-878)
explicitPhrases ==
    <<"strongly agree", "strongly disagree", "agree", "disagree", "neutral",
      "none of the above", "all of the above", "i am paying attention",
      "i am human", "i read the instructions", "i read the question", "attention">>

colorPhrases ==
    <<"blue", "red", "green", "yellow", "orange", "purple", "black", "white",
      "pink", "brown">>

\* Object.entries(numberWords), in insertion order
numberWords ==
    << <<"one", 1>>, <<"two", 2>>, <<"three", 3>>, <<"four", 4>>, <<"five", 5>>,
       <<"six", 6>>, <<"seven", 7>>, <<"eight", 8>>, <<"nine", 9>>, <<"ten", 10>>,
       <<"first", 1>>, <<"second", 2>>, <<"third", 3>>, <<"fourth", 4>>,
       <<"fifth", 5>>, <<"sixth", 6>>, <<"seventh", 7>>, <<"eighth", 8>>,
       <<"ninth", 9>>, <<"tenth", 10>> >>

attentionKeywords ==
    <<"attention", "paying attention", "i am paying attention", "human", "quality",
      "instruction">>

IncludesAny(s, ws) == \E k \in 1..Len(ws) : Includes(s, ws[k])

\* /(attention|quality check|...|human|verification)/.test(lower)
hasAttentionLanguage(lower) == IncludesAny(lower, AttentionWords)

\* /(please\s+(select|choose|pick|mark|enter|type)|for this question|...)/.test(lower)
hasPoliteInstruction(lower) ==
    \/ \E i \in 1..Len(lower) :
          /\ At(lower, i, "please")
          /\ SkipSpaces(lower, i + 6) > i + 6
          /\ AfterWord(lower, SkipSpaces(lower, i + 6), PoliteVerbs) # 0
    \/ IncludesAny(lower, PolitePhrases)

shouldConsiderTargets(lower) == hasAttentionLanguage(lower) \/ hasPoliteInstruction(lower)

\* the leftmost match of a pattern: caps[i] is its capture when tried at position i
FirstCapture(caps) ==
    LET hits == {i \in DOMAIN caps : caps[i] # ""}
    IN  IF hits = {} THEN "" ELSE caps[Min(hits)]

\* position after an optional "the\s+" at k (k itself when it is not there)
AfterThe(s, k) ==
    IF At(s, k, "the") /\ SkipSpaces(s, k + 3) > k + 3 THEN SkipSpaces(s, k + 3) ELSE k

\* \s+(?:the\s+)?(?:nouns) after a verb that ends before v, its \s+ ending before k:
\* the position after the noun, 0 when the pattern does not match
AfterNoun(lower, v, k, nouns) ==
    IF v # 0 /\ k > v THEN AfterWord(lower, AfterThe(lower, k), nouns) ELSE 0

\* (?:verbs)\s+(?:the\s+)?(?:nouns) tried at position i: the position after it, or 0
AfterInstruction(lower, i, verbs, nouns) ==
    AfterNoun(lower, AfterWord(lower, i, verbs),
              SkipSpaces(lower, AfterWord(lower, i, verbs)), nouns)

\* (\d+) tried at position d: the greedy run of digits, "" when there is none
DigitsAt(lower, d) == SubSeq(lower, d, RunEnd(lower, d, Digits))

\* \s*(\d+) after a noun that ends before n
DigitsAfterNoun(lower, n) == IF n # 0 THEN DigitsAt(lower, SkipSpaces(lower, n)) ELSE ""

\* /(?:type|enter|write)\s+(?:the\s+)?(?:number|digit)\s*(\d+)/ tried at position i
TypedNumberAt(lower, i) ==
    DigitsAfterNoun(lower, AfterInstruction(lower, i, TypeVerbs, <<"number", "digit">>))

typedNumberMatch(lower) == FirstCapture([i \in 1..Len(lower) |-> TypedNumberAt(lower, i)])

\* the first quote character of raw at or after position from, 0 when there is none
NextQuote(raw, from) == FindFirst({j \in from..Len(raw) : Char(raw, j) \in QuoteChars})

\* ([^"']{2,})["'] after the quote at a, the next quote being at b (0: none)
QuotedBetween(raw, a, b) ==
    IF b # 0 /\ b - a - 1 >= 2 THEN SubSeq(raw, a + 1, b - 1) ELSE ""

\* ["']([^"']{2,})["'] tried at the quote at position a (0: no quote)
QuotedAt(raw, a) == IF a # 0 THEN QuotedBetween(raw, a, NextQuote(raw, a + 1)) ELSE ""

\* /(?:type|enter|write)[^"']*["']([^"']{2,})["']/i tried at position i of raw
TypedQuotedAt(raw, lower, i) ==
    IF AfterWord(lower, i, TypeVerbs) # 0
    THEN QuotedAt(raw, NextQuote(raw, AfterWord(lower, i, TypeVerbs)))
    ELSE ""

typedQuotedMatch(raw, lower) ==
    FirstCapture([i \in 1..Len(raw) |-> TypedQuotedAt(raw, lower, i)])

WordClass == LowerLetters \cup Digits \cup {" "}

\* the greedy run of [a-z0-9 ] starting at p
WordFrom(lower, p) == SubSeq(lower, p, RunEnd(lower, p, WordClass))

\* \s+([a-z0-9 ]{3,}) after a noun that ends before n, the white space after it ending
\* before e: \s+ is greedy and gives characters back until the capture has 3
WordAfterSpaces(lower, n, e) ==
    LET starts == {p \in (n + 1)..e : Len(WordFrom(lower, p)) >= 3}
    IN  IF starts = {} THEN "" ELSE WordFrom(lower, Max(starts))

WordAfterNoun(lower, n) ==
    IF n # 0 THEN WordAfterSpaces(lower, n, SkipSpaces(lower, n)) ELSE ""

\* /(?:type|enter|write)\s+(?:the\s+)?(?:word|phrase|text|answer)\s+([a-z0-9 ]{3,})\s*(?:...)?/
\* tried at position i; the optional tail never changes the capture
TypedWordAt(lower, i) ==
    WordAfterNoun(lower, AfterInstruction(lower, i, TypeVerbs,
                                          <<"word", "phrase", "text", "answer">>))

typedWordMatch(lower) == FirstCapture([i \in 1..Len(lower) |-> TypedWordAt(lower, i)])

\* result.typedValue from the captures of the three typed-value patterns
TypedValueFrom(lower, number, quoted, word) ==
    IF quoted # "" THEN Trim(quoted)
    ELSE IF number # "" THEN number
    ELSE IF word # "" /\ (hasAttentionLanguage(lower)
                          \/ IncludesAny(lower, <<"exactly", "attention", "human">>))
    THEN Trim(word)
    ELSE ""

\* result.typedValue after the three typed-value patterns ("" is undefined)
typedValueOf(raw, lower) ==
    TypedValueFrom(lower, Trim(typedNumberMatch(lower)), typedQuotedMatch(raw, lower),
                   typedWordMatch(lower))

RECURSIVE QuotedFrom(_, _)
RECURSIVE QuotedFromHit(_, _)
\* the captures of the global pattern /["']([^"']{2,})["']/g, exec'ed from position i
QuotedFrom(raw, i) ==
    QuotedFromHit(raw, FindFirst({a \in i..Len(raw) :
                                     Char(raw, a) \in QuoteChars /\ QuotedAt(raw, a) # ""}))

\* the capture of the match at the quote at a (0: no match), then exec again after it
QuotedFromHit(raw, a) ==
    IF a = 0 THEN << >>
    ELSE <<QuotedAt(raw, a)>> \o QuotedFrom(raw, NextQuote(raw, a + 1) + 1)

RECURSIVE PushParts(_, _, _)
PushParts(targets, parts, k) ==
    IF k > Len(parts) THEN targets
    ELSE PushParts(IF Trim(parts[k]) # "" THEN PushUnique(targets, Trim(parts[k])) ELSE targets,
                   parts, k + 1)

\* pushLabel after const normalized = normalize(value)
PushNormalized(targets, normalized, consider) ==
    IF ~consider \/ normalized = "" THEN targets
    ELSE IF Includes(normalized, " and ")
    THEN PushParts(targets, Split(normalized, " and "), 1)
    ELSE PushUnique(targets, normalized)

\* pushLabel: labelTargets after pushing value
pushLabel(targets, value, consider) == PushNormalized(targets, normalize(value), consider)

\* a slip: pushIndex without the test of value <= 0
pushIndexUnchecked(targets, value, consider) ==
    IF ~consider THEN targets ELSE PushUnique(targets, value)

\* pushIndex: indexTargets after pushing value
pushIndex(targets, value, consider) ==
    IF ~consider \/ value <= 0 THEN targets ELSE PushUnique(targets, value)

RECURSIVE PushLabels(_, _, _, _)
\* pushLabel over the values of a sequence, in order
PushLabels(targets, values, k, consider) ==
    IF k > Len(values) THEN targets
    ELSE PushLabels(pushLabel(targets, values[k], consider), values, k + 1, consider)

RECURSIVE PushIncluded(_, _, _, _, _)
\* for (const phrase of phrases) if (lower.includes(phrase)) pushLabel(phrase)
PushIncluded(targets, phrases, k, lower, consider) ==
    IF k > Len(phrases) THEN targets
    ELSE PushIncluded(IF Includes(lower, phrases[k])
                      THEN pushLabel(targets, phrases[k], consider) ELSE targets,
                      phrases, k + 1, lower, consider)

\* the non-empty trimmed quoted phrases among the captures, in order
QuotedPhrases(caps) ==
    SelectSeq([k \in 1..Len(caps) |-> Trim(caps[k])], LAMBDA x : x # "")

\* labelTargets after the quotePattern loop (lines 853-862)
QuotedLabels(raw, lower, consider) ==
    IF IncludesAny(lower, SelectVerbs)
    THEN PushLabels(<< >>, QuotedPhrases(QuotedFrom(raw, 1)), 1, consider)
    ELSE << >>

\* labelTargets after the explicitPhrases loop (lines 864-883)
ExplicitLabels(targets, lower, consider) ==
    IF consider THEN PushIncluded(targets, explicitPhrases, 1, lower, consider) ELSE targets

\* labelTargets after the colorPhrases loop (lines 885-903)
ColorLabels(targets, lower, consider) ==
    IF consider /\ (Includes(lower, "color") \/ hasAttentionLanguage(lower))
    THEN PushIncluded(targets, colorPhrases, 1, lower, consider)
    ELSE targets

\* result.labelTargets
labelTargetsOf(raw, lower, consider) ==
    ColorLabels(ExplicitLabels(QuotedLabels(raw, lower, consider), lower, consider),
                lower, consider)

RECURSIVE PushNumberWords(_, _, _, _)
PushNumberWords(targets, k, lower, consider) ==
    IF k > Len(numberWords) THEN targets
    ELSE LET word == numberWords[k][1]
         IN  PushNumberWords(
               IF \/ Includes(lower, word \o " option") \/ Includes(lower, "option " \o word)
                  \/ Includes(lower, word \o " answer") \/ Includes(lower, word \o " choice")
               THEN pushIndex(targets, numberWords[k][2], consider) ELSE targets,
               k + 1, lower, consider)

\* (?:number|option|answer|choice)?\s*(\d+) tried at position x, the noun ending before
\* n (0: no noun there)
DigitsAfterOptionalNoun(lower, x, n) ==
    DigitsAt(lower, SkipSpaces(lower, IF n # 0 THEN n ELSE x))

DigitsAfter(lower, x) ==
    DigitsAfterOptionalNoun(lower, x,
        AfterWord(lower, x, <<"number", "option", "answer", "choice">>))

\* \s+(?:the\s+)?(?:number|option|answer|choice)?\s*(\d+) after a verb that ends before v,
\* its \s+ ending before k: with the optional "the" first, then without it
NumberAfterVerb(lower, v, k) ==
    IF v # 0 /\ k > v
    THEN FirstNonEmpty(<<DigitsAfter(lower, AfterThe(lower, k)), DigitsAfter(lower, k)>>)
    ELSE ""

\* /(?:select|choose|pick|mark|tap)\s+(?:the\s+)?(?:number|option|answer|choice)?\s*(\d+)/
\* tried at position i
NumberAt(lower, i) ==
    NumberAfterVerb(lower, AfterWord(lower, i, <<"select", "choose", "pick", "mark", "tap">>),
        SkipSpaces(lower, AfterWord(lower, i, <<"select", "choose", "pick", "mark", "tap">>)))

numberMatch(lower) == FirstCapture([i \in 1..Len(lower) |-> NumberAt(lower, i)])

\* if (numberMatch?.[1]) pushIndex(Number.parseInt(numberMatch[1], 10))
PushNumber(targets, digits, consider) ==
    IF digits # "" THEN pushIndex(targets, ParseInt(digits), consider) ELSE targets

\* result.indexTargets
indexTargetsOf(lower, consider) ==
    IF ~consider THEN << >>
    ELSE PushNumber(PushNumberWords(<< >>, 1, lower, consider), numberMatch(lower), consider)

\* result.preferredKeywords
preferredKeywordsOf(lower) ==
    IF hasAttentionLanguage(lower)
    THEN [k \in 1..Len(attentionKeywords) |-> normalize(attentionKeywords[k])]
    ELSE << >>

\* the value for "no directive" (undefined)
NoDirective ==
    [present |-> FALSE, labelTargets |-> << >>, indexTargets |-> << >>,
     typedValue |-> "", preferredKeywords |-> << >>]

\* the return of detectAttentionInstruction (lines 940-953)
Directive(labelTargets, indexTargets, typedValue, preferredKeywords) ==
    IF /\ Len(labelTargets) = 0 /\ Len(indexTargets) = 0
       /\ Len(preferredKeywords) = 0 /\ typedValue = ""
    THEN NoDirective
    ELSE [present |-> TRUE, labelTargets |-> labelTargets, indexTargets |-> indexTargets,
          typedValue |-> typedValue, preferredKeywords |-> preferredKeywords]

\* detectAttentionInstruction after raw and lower are computed
DirectiveOf(raw, lower) ==
    IF raw = "" THEN NoDirective
    ELSE Directive(labelTargetsOf(raw, lower, shouldConsiderTargets(lower)),
                   indexTargetsOf(lower, shouldConsiderTargets(lower)),
                   typedValueOf(raw, lower), preferredKeywordsOf(lower))

detectAttentionInstruction(text) == DirectiveOf(Trim(text), ToLower(Trim(text)))

(***************************************************************************)
(* Answer-bank lookup and the per-kind resolution of answerCurrentStep.    *)
(* A prompt is what getQuestionText returns for the element, a label what  *)
(* getLabelText returns for an option.                                     *)
(***************************************************************************)

\* text.includes(target) || target.includes(text)
LabelMatches(text, target) == Includes(text, target) \/ Includes(target, text)

\* the predicate of answers.find in findEntry
EntryMatches(entry, questionText) ==
    \/ /\ entry.question # ""
       /\ (Includes(questionText, entry.question) \/ Includes(entry.question, questionText))
    \/ \E k \in 1..Len(entry.keywords) : Includes(questionText, entry.keywords[k])

\* findEntry: the index in answers of the entry for a prompt, 0 when undefined
findEntry(prompt, answers) ==
    LET questionText == normalize(prompt)
    IN  IF Len(answers) = 0 \/ questionText = "" THEN 0
        ELSE FindFirst({e \in 1..Len(answers) : EntryMatches(answers[e], questionText)})

\* for (const target of targets) { option = texts.find(match target); if (option) break; }
\* texts[i] = "" marks an option the find skips (never one of the radio or checkbox stages)
FirstByTargets(texts, usable, targets) ==
    LET hit(t) == FindFirst({i \in 1..Len(texts) : usable[i] /\ LabelMatches(texts[i], targets[t])})
        t0 == FindFirst({t \in 1..Len(targets) : hit(t) # 0})
    IN  IF t0 = 0 THEN 0 ELSE hit(t0)

\* options.find(text includes some non-empty preferred keyword)
FirstByKeywords(texts, usable, keywords) ==
    FindFirst({i \in 1..Len(texts) : usable[i] /\ \E k \in 1..Len(keywords) :
                        keywords[k] # "" /\ Includes(texts[i], keywords[k])})

\* for (const indexTarget of indexTargets) { candidate = options[indexTarget - 1]; ... break; }
FirstByIndex(n, usable, indexTargets) ==
    LET t0 == FindFirst({t \in 1..Len(indexTargets) : indexTargets[t] \in 1..n /\ usable[indexTargets[t]]})
    IN  IF t0 = 0 THEN 0 ELSE indexTargets[t0]

AllUsable(n) == [i \in 1..n |-> TRUE]

NormalizedAnswers(entry) == [k \in 1..Len(entry.answers) |-> entry.answers[k].normalized]

\* the labels of a radio group as the finds compare them: normalize(getLabelText(input))
RadioTexts(group) == [i \in 1..Len(group.labels) |-> normalize(group.labels[i])]

\* the options of a select as the finds compare them
SelectTexts(select) ==
    [i \in 1..Len(select.options) |->
        normalize(IF select.options[i].text # "" THEN select.options[i].text
                  ELSE select.options[i].value)]

\* the options of a select a find can return: option.value && !option.disabled
SelectUsable(select) ==
    [i \in 1..Len(select.options) |->
        select.options[i].value # "" /\ ~select.options[i].disabled]

\* the order of the attention stages: label targets, preferred keywords, index targets
AttentionChoice(byLabel, byKeyword, byIndex) ==
    IF byLabel # 0 THEN [option |-> byLabel, stage |-> "label"]
    ELSE IF byKeyword # 0 THEN [option |-> byKeyword, stage |-> "keyword"]
    ELSE IF byIndex # 0 THEN [option |-> byIndex, stage |-> "index"]
    ELSE [option |-> 0, stage |-> "none"]

\* the option the attention stages of a radio group give (0: none) and the stage
RadioAttention(texts, attention) ==
    AttentionChoice(FirstByTargets(texts, AllUsable(Len(texts)), attention.labelTargets),
                    FirstByKeywords(texts, AllUsable(Len(texts)), attention.preferredKeywords),
                    FirstByIndex(Len(texts), AllUsable(Len(texts)), attention.indexTargets))

\* a slip: the bank stage does not test !option (as the bank stage of a select)
RadioBankUnguarded(texts, att, answers, e) ==
    IF e # 0 /\ Len(answers[e].answers) > 0
    THEN [option |-> FirstByTargets(texts, AllUsable(Len(texts)), NormalizedAnswers(answers[e])),
          stage |-> "bank"]
    ELSE att

\* the bank stage of a radio group: if (!option && entry) { for (answer) option = find }
RadioBank(texts, att, answers, e) ==
    IF att.option = 0 /\ e # 0
    THEN [option |-> FirstByTargets(texts, AllUsable(Len(texts)), NormalizedAnswers(answers[e])),
          stage |-> "bank"]
    ELSE att

\* the click on a radio group of n options: the option found, else a random one
RadioClicks(g, e, n, r) ==
    IF r.option # 0
    THEN {[kind |-> "radio", group |-> g, entry |-> e, option |-> r.option,
           stage |-> r.stage]}
    ELSE {[kind |-> "radio", group |-> g, entry |-> e, option |-> i, stage |-> "random"] :
             i \in 1..n}

\* a radio group after attention and entry are computed (lines 1075-1127)
RadioChoice(texts, g, attention, answers, e) ==
    RadioClicks(g, e, Len(texts), RadioBank(texts, RadioAttention(texts, attention), answers, e))

\* one radio group (lines 1071-1128): the set of clicks the code can make
RadioEvents(group, g, answers) ==
    RadioChoice(RadioTexts(group), g,
                IF group.prompt # "" THEN detectAttentionInstruction(group.prompt)
                ELSE NoDirective,
                answers, findEntry(group.prompt, answers))

RECURSIVE RadioLogs(_, _, _)
\* the radio loop over radiosByName.values(), in DOM-encounter order
RadioLogs(groups, g, answers) ==
    IF g > Len(groups) THEN {<< >>}
    ELSE {<<ev>> \o rest : ev \in RadioEvents(groups[g], g, answers),
                          rest \in RadioLogs(groups, g + 1, answers)}

RECURSIVE RequiredByLabels(_, _, _, _)
\* the labelTargets loop of the checkbox set: push the first match of every target
RequiredByLabels(texts, targets, t, required) ==
    IF t > Len(targets) THEN required
    ELSE LET c == FindFirst({i \in 1..Len(texts) : LabelMatches(texts[i], targets[t])})
         IN  RequiredByLabels(texts, targets, t + 1,
                              IF c # 0 THEN PushUnique(required, c) ELSE required)

RECURSIVE RequiredByIndex(_, _, _, _)
\* the indexTargets loop of the checkbox set
RequiredByIndex(n, indexTargets, t, required) ==
    IF t > Len(indexTargets) THEN required
    ELSE RequiredByIndex(n, indexTargets, t + 1,
                         IF indexTargets[t] \in 1..n
                         THEN PushUnique(required, indexTargets[t]) ELSE required)

\* required, the checkboxes the directive asks for (lines 1140-1173)
CheckboxRequired(texts, attention) ==
    LET n == Len(texts)
        byLabel == RequiredByLabels(texts, attention.labelTargets, 1, << >>)
        byKeyword == FirstByKeywords(texts, AllUsable(n), attention.preferredKeywords)
    IN  IF ~attention.present THEN << >>
        ELSE IF Len(byLabel) > 0 THEN byLabel
        ELSE IF byKeyword # 0 THEN <<byKeyword>>
        ELSE RequiredByIndex(n, attention.indexTargets, 1, << >>)

RECURSIVE BankClicks(_, _, _, _, _)
\* the bank loop of the checkbox set: click the first match of every answer unless checked
BankClicks(texts, wanted, k, checked, clicks) ==
    IF k > Len(wanted) THEN clicks
    ELSE LET c == FindFirst({i \in 1..Len(texts) : LabelMatches(texts[i], wanted[k])})
         IN  IF c # 0 /\ c \notin checked
             THEN BankClicks(texts, wanted, k + 1, checked \cup {c}, Append(clicks, c))
             ELSE BankClicks(texts, wanted, k + 1, checked, clicks)

\* the shuffled slices the random fallback can draw: distinct checkboxes, any order
Shuffles(n) ==
    LET selections == IF n < 2 THEN 1 ELSE 2
    IN  {sq \in [1..selections -> 1..n] : \A a, b \in 1..selections : a # b => sq[a] # sq[b]}

CheckboxEvent(i, stage, e) ==
    [kind |-> "checkbox", group |-> 1, entry |-> e, option |-> i, stage |-> stage]

\* the clicks among a list of checkboxes: if (!input.checked) input.click()
CheckboxClicks(boxes, checked, stage, e) ==
    [k \in 1..Len(SelectSeq(boxes, LAMBDA i : i \notin checked)) |->
        CheckboxEvent(SelectSeq(boxes, LAMBDA i : i \notin checked)[k], stage, e)]

\* the bank stage of the checkbox set (lines 1183-1200)
CheckboxBank(texts, checked, answers, e) ==
    IF e # 0 THEN BankClicks(texts, NormalizedAnswers(answers[e]), 1, checked, << >>)
    ELSE << >>

\* the stages of the checkbox set of n boxes: required, then the bank, then random
CheckboxStages(n, checked, e, required, bankClicks) ==
    IF n = 0 THEN {<< >>}
    ELSE IF Len(required) > 0 THEN {CheckboxClicks(required, checked, "attention", e)}
    ELSE IF Len(bankClicks) > 0 THEN {CheckboxClicks(bankClicks, {}, "bank", e)}
    ELSE {CheckboxClicks(sq, checked, "random", e) : sq \in Shuffles(n)}

\* the checkbox set after attention and entry are computed
CheckboxChoice(texts, checked, attention, answers, e) ==
    CheckboxStages(Len(texts), checked, e, CheckboxRequired(texts, attention),
                   CheckboxBank(texts, checked, answers, e))

\* the checkbox set (lines 1133-1214): the click sequences the code can make
CheckboxLogs(cb, answers) ==
    CheckboxChoice([i \in 1..Len(cb.boxes) |-> normalize(cb.boxes[i].label)],
                   {i \in 1..Len(cb.boxes) : cb.boxes[i].checked},
                   detectAttentionInstruction(cb.prompt), answers,
                   findEntry(cb.prompt, answers))

\* the choice the attention stages of a select give (lines 1224-1260)
SelectAttention(texts, usable, attention) ==
    AttentionChoice(FirstByTargets(texts, usable, attention.labelTargets),
                    FirstByKeywords(texts, usable, attention.preferredKeywords),
                    FirstByIndex(Len(texts), usable, attention.indexTargets))

\* the bank stage of a select: if (entry) { for (answer) choice = find }
SelectBank(texts, usable, att, answers, e) ==
    IF e # 0 /\ Len(answers[e].answers) > 0
    THEN [option |-> FirstByTargets(texts, usable, NormalizedAnswers(answers[e])),
          stage |-> "bank"]
    ELSE att

\* the change of a select: the choice found, else its first usable option, else none
SelectChange(g, e, r, first) ==
    IF r.option # 0
    THEN <<[kind |-> "select", group |-> g, entry |-> e, option |-> r.option,
            stage |-> r.stage]>>
    ELSE IF first # 0
    THEN <<[kind |-> "select", group |-> g, entry |-> e, option |-> first,
            stage |-> "default"]>>
    ELSE << >>

\* a select after attention and entry are computed (lines 1222-1286)
SelectChoice(texts, usable, g, attention, answers, e) ==
    SelectChange(g, e,
                 SelectBank(texts, usable, SelectAttention(texts, usable, attention), answers, e),
                 FindFirst({i \in 1..Len(texts) : usable[i]}))

\* one select (lines 1219-1288): the change it makes, if any
SelectEvents(select, g, answers) ==
    SelectChoice(SelectTexts(select), SelectUsable(select), g,
                 detectAttentionInstruction(select.prompt), answers,
                 findEntry(select.prompt, answers))

\* entry?.answers[0]?.raw, "" when undefined
FirstAnswer(answers, e) ==
    IF e # 0 /\ Len(answers[e].answers) > 0 THEN answers[e].answers[1].raw ELSE ""

\* a slip: the placeholder is tried before the answer bank
TextSamplePlaceholderFirst(input, typed, bank) ==
    FirstNonEmpty(<<typed, input.placeholder, bank, input.ariaLabel, input.name,
                    "Sample answer">>)

\* sample of a short-text input (lines 1299-1305)
TextSample(input, typed, bank) ==
    FirstNonEmpty(<<typed, bank, input.placeholder, input.ariaLabel, input.name,
                    "Sample answer">>)

\* a short-text input after attention and entry are computed; stage is the operand of
\* the || chain that supplies the sample
TextFill(input, g, e, typed, bank) ==
    [kind |-> "text", group |-> g, entry |-> e,
     stage |-> IF typed # "" THEN "typed" ELSE IF bank # "" THEN "bank" ELSE "default",
     value |-> TextSample(input, typed, bank)]

\* one short-text input (lines 1296-1311)
TextEvent(input, g, answers) ==
    TextFill(input, g, findEntry(input.prompt, answers),
             detectAttentionInstruction(input.prompt).typedValue,
             FirstAnswer(answers, findEntry(input.prompt, answers)))

\* textarea.dataset.answerKey as deriveKey and the textarea loop derive it
answerKey(textarea, index) ==
    FirstNonEmpty(<<textarea.name, textarea.ariaLabel, textarea.placeholder,
                    "textarea-" \o ToString(index)>>)

\* longFormAnswers[key], "" when undefined
LongFormSample(longForm, key) == IF key \in DOMAIN longForm THEN longForm[key] ELSE ""

\* a textarea after attention, entry and the long-form sample are computed; stage is
\* the operand of the || chain that supplies the sample
TextareaFill(textarea, index, e, typed, longFormSample, bank) ==
    [kind |-> "textarea", group |-> index + 1, entry |-> e,
     stage |-> IF typed # "" THEN "typed" ELSE IF longFormSample # "" THEN "longform"
               ELSE IF bank # "" THEN "bank" ELSE "default",
     value |-> FirstNonEmpty(<<typed, longFormSample, bank, textarea.placeholder,
                               textarea.ariaLabel,
                               "This response was generated automatically.">>)]

\* one textarea (lines 1318-1347); index is its 0-based position
TextareaEvent(textarea, index, answers, longForm) ==
    TextareaFill(textarea, index, findEntry(textarea.prompt, answers),
                 detectAttentionInstruction(textarea.prompt).typedValue,
                 LongFormSample(longForm, answerKey(textarea, index)),
                 FirstAnswer(answers, findEntry(textarea.prompt, answers)))

RECURSIVE Flatten(_)
Flatten(seqs) == IF Len(seqs) = 0 THEN << >> ELSE Head(seqs) \o Flatten(Tail(seqs))

\* a slip: the checkbox block comes before the radio block and every short-text input
\* is filled
FieldPassLogsReordered(pg, answers, longForm) ==
    LET selects == Flatten([g \in 1..Len(pg.selects) |-> SelectEvents(pg.selects[g], g, answers)])
        texts == [g \in 1..Len(pg.textInputs) |-> TextEvent(pg.textInputs[g], g, answers)]
        areas == [g \in 1..Len(pg.textareas) |->
                    TextareaEvent(pg.textareas[g], g - 1, answers, longForm)]
    IN  {c \o r \o selects \o texts \o areas :
            r \in RadioLogs(pg.radios, 1, answers), c \in CheckboxLogs(pg.checkboxes, answers)}

\* the evaluate callback of answerCurrentStep (lines 1059-1349): the sequences of field
\* changes one pass over the page can make, in the order it makes them
FieldPassLogs(pg, answers, longForm) ==
    LET selects == Flatten([g \in 1..Len(pg.selects) |-> SelectEvents(pg.selects[g], g, answers)])
        nText == IF Len(pg.textInputs) < 2 THEN Len(pg.textInputs) ELSE 2
        texts == [g \in 1..nText |-> TextEvent(pg.textInputs[g], g, answers)]
        areas == [g \in 1..Len(pg.textareas) |->
                    TextareaEvent(pg.textareas[g], g - 1, answers, longForm)]
    IN  {r \o c \o selects \o texts \o areas :
            r \in RadioLogs(pg.radios, 1, answers), c \in CheckboxLogs(pg.checkboxes, answers)}

(***************************************************************************)
(* buildLongFormAnswers and GptLongFormResponder.generate.                 *)
(***************************************************************************)
DefaultLongForm == "This response was generated automatically."

\* shouldUseGpt of a long-form target
shouldUseGpt(textarea) ==
    textarea.rows > 2 \/ textarea.minLength >= 120 \/ Len(textarea.collected) >= 40

\* the fallback of the generate request
requestFallback(textarea) ==
    IF Trim(textarea.placeholder) # "" THEN textarea.placeholder ELSE DefaultLongForm

\* the prompt of the generate request
requestPrompt(textarea) ==
    FirstNonEmpty(<<textarea.collected, textarea.placeholder,
                    "Provide a friendly, first-person survey response.">>)

\* the textareas (1-based positions) for which generate reaches the provider
ProviderRequests(pg) ==
    SelectSeq([i \in 1..Len(pg.textareas) |-> i],
              LAMBDA i : shouldUseGpt(pg.textareas[i])
                         /\ Trim(requestPrompt(pg.textareas[i])) # "")

\* a slip: generate returns what the provider gave, nothing when it threw
generateWithoutFallback(textarea, outcome) ==
    IF Trim(requestPrompt(textarea)) = "" THEN requestFallback(textarea)
    ELSE IF outcome.threw THEN "" ELSE Trim(outcome.text)

\* generate: the provider's text, or the fallback when the provider throws (the catch
\* only logs) or returns nothing; outcome is what client.responses.create did
generate(textarea, outcome) ==
    IF Trim(requestPrompt(textarea)) = "" THEN requestFallback(textarea)
    ELSE IF ~outcome.threw /\ Trim(outcome.text) # "" THEN Trim(outcome.text)
    ELSE requestFallback(textarea)

\* the targets (1-based positions) the loop of buildLongFormAnswers calls generate for
GenerateTargets(pg) ==
    SelectSeq([i \in 1..Len(pg.textareas) |-> i], LAMBDA i : shouldUseGpt(pg.textareas[i]))

\* the calls of longFormResponder.generate the targets loop makes, in order: the target,
\* what the provider did and what generate returned
GenerateCalls(pg, outcomes) ==
    [k \in 1..Len(GenerateTargets(pg)) |->
        [target |-> GenerateTargets(pg)[k],
         outcome |-> outcomes[GenerateTargets(pg)[k]],
         response |-> generate(pg.textareas[GenerateTargets(pg)[k]],
                               outcomes[GenerateTargets(pg)[k]])]]

RECURSIVE LongFormFrom(_, _, _, _)
\* the answers record after the targets loop; later targets overwrite equal keys
LongFormFrom(pg, i, outcomes, acc) ==
    IF i > Len(pg.textareas) THEN acc
    ELSE LET ta == pg.textareas[i]
             response == generate(ta, outcomes[i])
             key == answerKey(ta, i - 1)
         IN  LongFormFrom(pg, i + 1, outcomes,
                 IF shouldUseGpt(ta) /\ response # ""
                 THEN [k \in DOMAIN acc \cup {key} |-> IF k = key THEN response ELSE acc[k]]
                 ELSE acc)

\* the empty Record<string, string>
NoLongForm == [k \in {} |-> ""]

(***************************************************************************)
(* hasCompletedSurvey and the advance control.                             *)
(***************************************************************************)
completionHints == <<"thank you", "completed", "finished", "you've earned", "no more surveys">>

hasCompletedSurvey(pg) == IncludesAny(ToLower(pg.bodyText), completionHints)

\* the descriptors of advance, in the order clickFirstMatching tries them
AdvanceSelectors ==
    <<"text:next", "text:continue", "text:submit", "text:finish",
      "css:button[type=submit]", "css:input[type=submit]", "css:[role=button][data-qa=next]">>

\* clickFirstMatching: the first descriptor that yields an element and is clicked, 0 if none;
\* pg.advance holds the descriptors for which the lookup and the click succeed
clickFirstMatching(pg) ==
    FindFirst({d \in 1..Len(AdvanceSelectors) : d \in pg.advance})

(***************************************************************************)
(* The pointer: randomBetween, clamp and the geometry of moveMouseNaturally, *)
(* hoverElement and clickElement.  Coordinates are whole pixels; a draw of   *)
(* Math.random() is one of a few sample values, in hundredths.               *)
(***************************************************************************)
\* the sample values of Math.random(), in hundredths: the lowest and near the highest
Draws == {0, 99}

\* randomBetween(min, max) for the draw r
randomBetween(min, max, r) == min + ((max - min) * r) \div 100

\* Math.round(randomBetween(min, max)) for the draw r
RoundedBetween(min, max, r) == (2 * (min * 100 + (max - min) * r) + 100) \div 200

\* clamp (lines 1626-1640); coordinates are numbers, the NaN branch is never taken
clamp(value, min, max) ==
    IF value < min THEN min ELSE IF value > max THEN max ELSE value

Point(x, y) == [set |-> TRUE, x |-> x, y |-> y]

\* mousePosition before it is first assigned (undefined)
NoPoint == [set |-> FALSE, x |-> 0, y |-> 0]

Viewport(width, height) == [known |-> TRUE, width |-> width, height |-> height]

\* page.viewport() returning null
NoViewport == [known |-> FALSE, width |-> 0, height |-> 0]

\* element.boundingBox()
Rect(x, y, width, height) ==
    [present |-> TRUE, x |-> x, y |-> y, width |-> width, height |-> height]

\* element.boundingBox() returning null
NoBox == [present |-> FALSE, x |-> 0, y |-> 0, width |-> 0, height |-> 0]

\* { x: clampX(p.x), y: clampY(p.y) }
Clamped(vp, p) == Point(clamp(p.x, 1, vp.width - 1), clamp(p.y, 1, vp.height - 1))

\* the points randomBetween draws between the fractions lo% and hi% of a box
PointsIn(box, lo, hi) ==
    {Point(randomBetween(box.x + (box.width * lo) \div 100,
                         box.x + (box.width * hi) \div 100, rx),
           randomBetween(box.y + (box.height * lo) \div 100,
                         box.y + (box.height * hi) \div 100, ry)) : rx \in Draws, ry \in Draws}

\* targetX, targetY of hoverElement (lines 1601-1602)
HoverTargets(box) == PointsIn(box, 20, 80)

\* targetX, targetY of clickElement (lines 1612-1613)
ClickTargets(box) == PointsIn(box, 25, 75)

\* the targets of jitterMouse (lines 1510-1511) and the seeds of moveMouseNaturally
PointsOf(vp, lo, hi) == PointsIn(Rect(0, 0, vp.width, vp.height), lo, hi)

\* overshootX, overshootY (lines 1581-1582)
OvershootPoints(vp, target) ==
    {Clamped(vp, Point(target.x + randomBetween(-18, 18, rx),
                       target.y + randomBetween(-18, 18, ry))) : rx \in Draws, ry \in Draws}

\* a slip: segments is drawn between 1 and 5
SegmentCountsWide == {Max({1, RoundedBetween(1, 5, r)}) : r \in Draws \cup {50}}

\* segments of followPath: Math.max(1, Math.round(this.randomBetween(2, 4)))
SegmentCounts == {Max({1, RoundedBetween(2, 4, r)}) : r \in Draws \cup {50}}

RECURSIVE RootBetween(_, _, _)
\* the integer part of the square root of n, known to lie in lo..hi
RootBetween(n, lo, hi) ==
    IF lo >= hi THEN lo
    ELSE IF ((lo + hi + 1) \div 2) * ((lo + hi + 1) \div 2) <= n
    THEN RootBetween(n, (lo + hi + 1) \div 2, hi)
    ELSE RootBetween(n, lo, (lo + hi + 1) \div 2 - 1)

\* Math.hypot(dx, dy), rounded down
Hypot(dx, dy) == RootBetween(dx * dx + dy * dy, 0, Max({dx, -dx}) + Max({dy, -dy}))

\* maxOffset of followPath: Math.min(45, distance * 0.3)
MaxOffset(from, to) == Min({45, (Hypot(to.x - from.x, to.y - from.y) * 3) \div 10})

\* offsetStrength: (Math.random() - 0.5) * 2 * maxOffset * (1 - progress)
OffsetStrength(from, to, index, segments, r) ==
    ((r - 50) * MaxOffset(from, to) * (segments + 1 - index)) \div (50 * (segments + 1))

\* the intermediate point of index `index` of followPath for an offset strength
IntermediateAt(vp, from, to, index, segments, offset) ==
    Clamped(vp, Point(from.x + ((to.x - from.x) * index) \div (segments + 1) + offset,
                      from.y + ((to.y - from.y) * index) \div (segments + 1)
                             + (offset * 6) \div 10))

\* the intermediate points followPath can move to at index `index`
IntermediatePoints(vp, from, to, index, segments) ==
    {IntermediateAt(vp, from, to, index, segments,
                    OffsetStrength(from, to, index, segments, r)) : r \in Draws}

\* whether a point lies within a bounding box
Inside(p, box) ==
    /\ box.x <= p.x /\ p.x <= box.x + box.width
    /\ box.y <= p.y /\ p.y <= box.y + box.height

\* VIEWPORTS (lines 243-248): the ones the model draws humanProfile.viewport from
Viewports == {Viewport(1280, 720)}

(***************************************************************************)
(* The answer bank as SurveyAnswerBank.fromWorkbook builds it, and the     *)
(* scripted pages the run meets.                                           *)
(***************************************************************************)
\* one row of the workbook turned into a SerializedAnswerEntry
Entry(question, keywords, answers) ==
    [question |-> normalize(question),
     keywords |-> SelectSeq([k \in 1..Len(keywords) |-> normalize(keywords[k])],
                            LAMBDA w : w # ""),
     answers  |-> [k \in 1..Len(answers) |-> [raw |-> answers[k],
                                               normalized |-> normalize(answers[k])]]]

BluePrompt == "Please select 'Blue' to verify you are paying attention"
ThirdPrompt == "Choose the third option"
BananaPrompt == "Type the word banana to confirm you read this"
SelectBluePrompt == "For verification, pick 'Blue' from the list"
SelectSecondPrompt == "Please choose the second option"
ColorPrompt == "What is your favorite color?"
GenderPrompt == "What is your gender?"
PetsPrompt == "Which pets do you own?"
CityPrompt == "Which city do you live in?"
HolidayPrompt == "Tell us about your last holiday in a few sentences"
NotesPrompt == "Any notes?"
WhyPrompt == "Why?"
PairPrompt == "Please select 'Red' and \"red\" or 'cats and dogs'"
ZeroPrompt == "Attention: please select option 0"
TwicePrompt == "Please pick the third option, option three or option 3"
BlankPrompt == "Please enter '  ' here"
RedPrompt == "Please select 'Red' for this question"
SevenPrompt == "Please type the number 7 in the box named 'seven'"

BankEmpty == << >>

BankRed ==
    <<Entry(BluePrompt, << >>, <<"Red">>),
      Entry("favorite color", << >>, <<"Red", "Green">>),
      Entry("", <<"list">>, <<"Red">>),
      Entry("second option", << >>, <<"Maybe later">>),
      Entry(BananaPrompt, << >>, <<"apple">>),
      Entry("your gender", << >>, <<"Nonbinary">>),
      Entry("pets", << >>, <<"Dog">>),
      Entry("which city", << >>, <<"Paris">>),
      Entry("holiday", << >>, <<"We went hiking.">>)>>

BankKeywords ==
    <<Entry("", <<"attention", "option">>, <<"Green", "B">>),
      Entry("What is your favorite color", << >>, <<"Blue">>),
      Entry("gender", << >>, <<"Female">>),
      Entry("pets", << >>, <<"Cat", "Fish">>),
      Entry("second option", << >>, <<"No">>)>>

Banks == {BankEmpty, BankRed, BankKeywords}

Radio(prompt, labels) == [prompt |-> prompt, labels |-> labels]

\* one visible radio input of the document: its name, getQuestionText and getLabelText
RadioInput(name, prompt, label) == [name |-> name, prompt |-> prompt, label |-> label]

RECURSIVE NamesOf(_, _, _)
\* the keys of radiosByName in insertion order: each name where it is first met
NamesOf(visibleRadios, k, names) ==
    IF k > Len(visibleRadios) THEN names
    ELSE NamesOf(visibleRadios, k + 1, PushUnique(names, visibleRadios[k].name))

\* the members of one group, in document order
GroupOf(visibleRadios, name) == SelectSeq(visibleRadios, LAMBDA r : r.name = name)

\* Array.from(radiosByName.values()) (lines 1064-1071): the groups in the order in which
\* their first member is met, each with the question text of group[0]
radiosByName(visibleRadios) ==
    [g \in 1..Len(NamesOf(visibleRadios, 1, << >>)) |->
        Radio(GroupOf(visibleRadios, NamesOf(visibleRadios, 1, << >>)[g])[1].prompt,
              [i \in 1..Len(GroupOf(visibleRadios, NamesOf(visibleRadios, 1, << >>)[g])) |->
                  GroupOf(visibleRadios, NamesOf(visibleRadios, 1, << >>)[g])[i].label])]

Box(label, checked) == [label |-> label, checked |-> checked]
Boxes(prompt, boxes) == [prompt |-> prompt, boxes |-> boxes]
Opt(text, value) == [text |-> text, value |-> value, disabled |-> FALSE]
Sel(prompt, options) == [prompt |-> prompt, options |-> options]
Txt(prompt, placeholder) ==
    [prompt |-> prompt, placeholder |-> placeholder, ariaLabel |-> "", name |-> "q1"]
Area(prompt, placeholder, rows, minLength) ==
    [prompt |-> prompt, collected |-> prompt, name |-> "", ariaLabel |-> "",
     placeholder |-> placeholder, rows |-> rows, minLength |-> minLength]

NoBoxes == Boxes("", << >>)

\* the bounding box of the advance control of a page unless the page says otherwise: a
\* small control, so that every draw of the click target is the same pixel
AdvanceBox == Rect(639, 659, 2, 2)

\* a document: its fields, the advance descriptors that yield a clickable element and the
\* bounding box of that element
Page(bodyText, radios, checkboxes, selects, textInputs, textareas, advance) ==
    [bodyText |-> bodyText, radios |-> radios, checkboxes |-> checkboxes,
     selects |-> selects, textInputs |-> textInputs, textareas |-> textareas,
     advance |-> advance, box |-> AdvanceBox]

PageThanks == Page("Thank you for your time!", << >>, NoBoxes, << >>, << >>, << >>, {})
PageEarned ==
    Page("You've earned 50 points", <<Radio(ColorPrompt, <<"Red", "Blue">>)>>, NoBoxes,
         << >>, << >>, << >>, {1})
PageEmpty == Page("Loading", << >>, NoBoxes, << >>, << >>, << >>, {1})
PageBlue ==
    Page("Question 1", <<Radio(BluePrompt, <<"Red", "Green", "Blue", "Yellow">>)>>, NoBoxes,
         << >>, << >>, << >>, {1})
PageThird ==
    Page("Question 2", <<Radio(ThirdPrompt, <<"A", "B", "C", "D">>)>>, NoBoxes,
         << >>, << >>, << >>, {5})
PageBanana ==
    Page("Question 3", << >>, NoBoxes, << >>, <<Txt(BananaPrompt, "Your answer")>>, << >>, {2, 5})
PageSelects ==
    Page("Question 4", << >>, NoBoxes,
         <<Sel(SelectBluePrompt, <<Opt("Choose", ""), Opt("Red", "red"), Opt("Blue", "blue")>>),
           Sel(SelectSecondPrompt, <<Opt("Yes", "y"), Opt("No", "n"), Opt("Maybe", "m")>>),
           Sel(CityPrompt, <<Opt("", ""), Opt("Rome", "rome"), Opt("Paris", "paris")>>)>>,
         << >>, << >>, {6})
PagePlain ==
    Page("Question 5",
         <<Radio(ColorPrompt, <<"Red", "Green", "Blue">>), Radio(GenderPrompt, <<"Male", "Female">>)>>,
         Boxes(PetsPrompt, <<Box("Dog", TRUE), Box("Cat", FALSE), Box("Fish", FALSE)>>),
         << >>, <<Txt(CityPrompt, "")>>, << >>, {3})
PageChecked ==
    Page("Question 6", << >>, Boxes(PetsPrompt, <<Box("Dog", TRUE), Box("Cat", TRUE)>>),
         <<Sel(CityPrompt, <<Opt("Pick one", "")>>)>>, << >>, << >>, {1})
PageHoliday ==
    Page("Question 7", << >>, NoBoxes, << >>, << >>,
         <<Area(HolidayPrompt, "", 4, 0), Area("Comments", "Optional", 1, 0)>>, {4})
PageStuck ==
    Page("Question 8", <<Radio(GenderPrompt, <<"Male", "Female">>)>>, NoBoxes,
         << >>, << >>, << >>, {})

\* three textareas, two of which derive the same key from their placeholder
PageTwins ==
    Page("Question 9", << >>, NoBoxes, << >>, << >>,
         <<Area(HolidayPrompt, "Your answer", 4, 0), Area(NotesPrompt, "Your answer", 1, 0),
           Area(WhyPrompt, "", 1, 150)>>, {4})

\* every kind of field, the radio inputs of two groups interleaved in the document
PageMixed ==
    Page("Question 10",
         radiosByName(<<RadioInput("gender", GenderPrompt, "Male"),
                        RadioInput("color", ColorPrompt, "Red"),
                        RadioInput("gender", GenderPrompt, "Female"),
                        RadioInput("color", ColorPrompt, "Blue")>>),
         Boxes(PetsPrompt, <<Box("Dog", FALSE), Box("Cat", FALSE)>>),
         <<Sel(CityPrompt, <<Opt("", ""), Opt("Rome", "rome")>>)>>,
         <<Txt(CityPrompt, ""), Txt(BananaPrompt, "Your answer"), Txt(ColorPrompt, "")>>,
         <<Area(NotesPrompt, "Optional", 1, 0)>>, {2})

\* prompts with repeated, joined, zero and blank targets, and one that asks for a number
\* and quotes a phrase
PageTricky ==
    Page("Question 11",
         <<Radio(PairPrompt, <<"Red", "Cats", "Dogs">>), Radio(ZeroPrompt, <<"A", "B">>),
           Radio(TwicePrompt, <<"A", "B", "C">>)>>,
         Boxes(RedPrompt, <<Box("Dark red", FALSE), Box("Blue", FALSE), Box("Red", FALSE)>>),
         << >>, <<Txt(BlankPrompt, ""), Txt(SevenPrompt, "")>>, << >>, {1})

Pages ==
    {PageThanks, PageEarned, PageEmpty, PageBlue, PageThird, PageBanana, PageSelects,
     PagePlain, PageChecked, PageHoliday, PageStuck, PageTwins, PageMixed, PageTricky}

\* what the long-form provider can do with a request: throw, return nothing, return a text
ProviderOutcomes ==
    {[threw |-> TRUE, text |-> ""], [threw |-> FALSE, text |-> ""],
     [threw |-> FALSE, text |-> "I enjoyed it a lot."]}

\* the largest configured maxSteps of the model
MaxStepsCap == 3

(***************************************************************************)
(* The run: SurveyJunkieBot.answerSurvey over a scripted page.             *)
(***************************************************************************)
VARIABLES
    maxSteps,         \* options.maxSteps
    answers,          \* answerBank.serialize()
    useGpt,           \* options.useGptLongForm; afterwards whether longFormResponder is set
    openAIApiKey,     \* options.openAIApiKey ("": none)
    launched,         \* whether run() has launched the browser
    step,             \* the loop variable of answerSurvey
    pc,               \* where the bot stands: new, failed, ready, loop, longform, fields,
                      \* advance, idle, done
    status,           \* running, or the outcome the run ended with
    page,             \* the document of the active survey frame
    snapshot,         \* the document as the field pass of the current step found it
    longFormAnswers,  \* the record buildLongFormAnswers returned in the current step
    requested,        \* the textareas the provider was asked about in the current step
    generated,        \* the calls of longFormResponder.generate of the current step
    events,           \* the field changes of the current step, in order
    clicked,          \* the advance descriptor clicked in the current step, 0 if none
    gestures,         \* hoverElement / clickElement calls of the current step
    checks,           \* completion checks so far that found no completion text
    passes,           \* field passes so far that interacted
    advances,         \* advance controls activated so far
    idleWaits,        \* idle waits performed so far
    idleTimedOut,     \* whether the last idle wait ran into its timeout
    viewport,         \* page.viewport()
    mousePosition,    \* this.mousePosition
    pointer,          \* where the browser's mouse is: the last page.mouse.move
    mpc,              \* where the pointer code stands: idle, enter, leg, landed, press, release
    call,             \* the pointer operation in progress or last finished
    leg,              \* the followPath in progress
    moved,            \* page.mouse.move calls of followPath in the operation so far
    seeded,           \* whether the operation made the seed move
    click,            \* where the last clickElement pressed and released
    transactions,     \* server: the transaction list, head first
    uniqueWallets,    \* server: the set of wallet addresses seen
    stats,            \* server: the module variable stats
    wss,              \* server: whether the WebSocketServer exists
    sockets,          \* server: the open WebSocket clients
    sent,             \* server: the messages sent to WebSocket clients, in order
    response,         \* server: the status of the last POST /api/transactions answer, 0 if none
    walletState,      \* client: the walletState of App
    timers,           \* client: the pending setTimeout callbacks of handleConnect
    sessions,         \* client: connects accepted so far
    requests          \* client: POST /api/transactions requests of handleRefund in flight

vars ==
    <<maxSteps, answers, useGpt, openAIApiKey, launched, step, pc, status, page, snapshot,
      longFormAnswers, requested, generated, events, clicked, gestures, checks, passes,
      advances, idleWaits, idleTimedOut, viewport, mousePosition, pointer, mpc, call, leg,
      moved, seeded, click, transactions, uniqueWallets, stats, wss, sockets, sent,
      response, walletState, timers, sessions, requests>>

\* the refund server
server == <<transactions, uniqueWallets, stats, wss, sockets, sent, response>>

\* the wallet flow of the client
wallet == <<walletState, timers, sessions, requests>>

\* the survey bot
bot ==
    <<maxSteps, answers, useGpt, openAIApiKey, launched, step, pc, status, page, snapshot,
      longFormAnswers, requested, generated, events, clicked, gestures, checks, passes,
      advances, idleWaits, idleTimedOut, viewport, mousePosition, pointer, mpc, call, leg,
      moved, seeded, click>>

config == <<maxSteps, answers, useGpt, openAIApiKey>>
counters == <<checks, passes, advances, idleWaits>>

\* the state of the step loop
run ==
    <<launched, step, pc, status, page, snapshot, longFormAnswers, requested, generated,
      events, clicked, gestures, checks, passes, advances, idleWaits, idleTimedOut>>

\* the bookkeeping of a pointer operation in progress
operation == <<mpc, call, leg, moved, seeded>>

\* the pointer
motion == <<viewport, mousePosition, pointer, click, operation>>

Terminal == {"completed", "stalled-no-interaction", "stalled-no-advance", "max-steps-reached"}

NoCall == [kind |-> "none", box |-> NoBox, target |-> NoPoint, overshoot |-> FALSE]
NoLeg == [from |-> NoPoint, to |-> NoPoint, segments |-> 0, index |-> 0, last |-> FALSE]
NoClick == [downAt |-> NoPoint, upAt |-> NoPoint, direct |-> FALSE]

\* nothing has moved the pointer yet
\* JavaScript values of a JSON body and of the arithmetic on them: a number, a string,
\* undefined (a field that is missing), null and NaN
Number(n) == [kind |-> "number", n |-> n, s |-> ""]
Str(s) == [kind |-> "string", n |-> 0, s |-> s]
Undefined == [kind |-> "undefined", n |-> 0, s |-> ""]
Null == [kind |-> "null", n |-> 0, s |-> ""]
NaN == [kind |-> "NaN", n |-> 0, s |-> ""]

\* src/server/index.ts before the module body has run
ZeroStats == [totalUsers |-> 0, totalAccountsClosed |-> Number(0), totalSolRefunded |-> Number(0)]

ServerDown ==
    /\ transactions = << >> /\ uniqueWallets = {} /\ stats = ZeroStats
    /\ wss = FALSE /\ sockets = {} /\ sent = << >>
    /\ response = [status |-> 0,
                   body |-> [walletAddress |-> Undefined, accountsClosed |-> Undefined,
                             refundedSol |-> Undefined]]

\* src/client/src/App.tsx: initialWalletState; provider and walletAddress are undefined
initialWalletState ==
    [status |-> "disconnected", provider |-> "", walletAddress |-> "",
     accountsFound |-> 0, solAvailable |-> 0, signature |-> "", error |-> ""]

ClientUnmounted ==
    /\ walletState = initialWalletState /\ timers = {} /\ sessions = 0 /\ requests = 0

MotionAtRest ==
    /\ mousePosition = NoPoint /\ pointer = NoPoint /\ click = NoClick
    /\ mpc = "idle" /\ call = NoCall /\ leg = NoLeg /\ moved = 0 /\ seeded = FALSE

\* options.maxSteps is taken as given (parseCliArgs: Number.parseInt, no validation), so a
\* negative value is a configuration the run can start with; -1 stands for those
Init ==
    /\ maxSteps \in (-1)..MaxStepsCap
    /\ answers \in Banks
    /\ useGpt \in BOOLEAN
    /\ openAIApiKey \in IF useGpt THEN {"", "sk-test"} ELSE {""}
    /\ launched = FALSE
    /\ step = 0
    /\ pc = "new"
    /\ status = "running"
    /\ page \in Pages
    /\ snapshot = page
    /\ longFormAnswers = NoLongForm
    /\ requested = << >>
    /\ generated = << >>
    /\ events = << >>
    /\ clicked = 0
    /\ gestures = 0
    /\ checks = 0 /\ passes = 0 /\ advances = 0 /\ idleWaits = 0
    /\ idleTimedOut = FALSE
    /\ viewport = NoViewport
    /\ MotionAtRest
    /\ ServerDown /\ ClientUnmounted

\* a slip: the API key is not tested and the responder is built without one
ConstructorUnchecked ==
    /\ pc = "new"
    /\ pc' = "ready"
    /\ viewport' \in Viewports
    /\ UNCHANGED <<server, wallet, config, launched, step, status, page, snapshot, longFormAnswers, requested,
                   generated, events, clicked, gestures, counters, idleTimedOut,
                   mousePosition, pointer, click, operation>>

\* new SurveyJunkieBot(options) (lines 299-340); the CLI has checked the credentials
Constructor ==
    /\ pc = "new"
    /\ IF useGpt /\ openAIApiKey = ""
       THEN pc' = "failed" /\ UNCHANGED viewport
       ELSE pc' = "ready" /\ viewport' \in Viewports
    /\ UNCHANGED <<server, wallet, config, launched, step, status, page, snapshot, longFormAnswers, requested,
                   generated, events, clicked, gestures, counters, idleTimedOut,
                   mousePosition, pointer, click, operation>>

\* run() up to the call of answerSurvey (lines 341-347): launch, which seeds the pointer,
\* then the answer bank, the login and the navigation to the survey; the centre of the
\* viewport stands for wherever these leave the pointer
Launch ==
    /\ pc = "ready"
    /\ launched' = TRUE
    /\ pc' = "loop"
    /\ \E p \in PointsOf(viewport, 50, 50) : mousePosition' = p /\ pointer' = p
    /\ UNCHANGED <<server, wallet, config, step, status, page, snapshot, longFormAnswers, requested,
                   generated, events, clicked, gestures, counters, idleTimedOut, viewport,
                   click, operation>>

\* a slip: the return after the log line is missing and the loop goes on
FinishAndContinue(outcome) ==
    /\ status' = outcome
    /\ pc' = "loop"

\* the run ends: every return of answerSurvey
Finish(outcome) ==
    /\ status' = outcome
    /\ pc' = "done"

\* a slip: the loop test is step <= maxSteps
CheckCompletionOffByOne ==
    /\ pc = "loop"
    /\ IF ~(step <= maxSteps) THEN Finish("max-steps-reached") /\ UNCHANGED checks
       ELSE IF hasCompletedSurvey(page) THEN Finish("completed") /\ UNCHANGED checks
       ELSE pc' = "longform" /\ checks' = checks + 1 /\ UNCHANGED status
    /\ UNCHANGED <<server, wallet, config, launched, step, page, snapshot, longFormAnswers, requested,
                   generated, events, clicked, gestures, passes, advances, idleWaits,
                   idleTimedOut, motion>>

\* a slip: the result of hasCompletedSurvey is not looked at before the field pass
CheckCompletionLate ==
    /\ pc = "loop"
    /\ IF ~(step < maxSteps) THEN Finish("max-steps-reached") /\ UNCHANGED checks
       ELSE pc' = "longform" /\ checks' = checks + 1 /\ UNCHANGED status
    /\ UNCHANGED <<server, wallet, config, launched, step, page, snapshot, longFormAnswers, requested,
                   generated, events, clicked, gestures, passes, advances, idleWaits,
                   idleTimedOut, motion>>

\* the loop test and the completion check (lines 559-570)
CheckCompletion ==
    /\ pc = "loop"
    /\ IF ~(step < maxSteps) THEN Finish("max-steps-reached") /\ UNCHANGED checks
       ELSE IF hasCompletedSurvey(page) THEN Finish("completed") /\ UNCHANGED checks
       ELSE pc' = "longform" /\ checks' = checks + 1 /\ UNCHANGED status
    /\ UNCHANGED <<server, wallet, config, launched, step, page, snapshot, longFormAnswers, requested,
                   generated, events, clicked, gestures, passes, advances, idleWaits,
                   idleTimedOut, motion>>

\* buildLongFormAnswers (lines 601-723): one generate per open-ended textarea
BuildLongFormAnswers ==
    /\ pc = "longform"
    /\ IF useGpt
       THEN \E outcomes \in [1..Len(page.textareas) -> ProviderOutcomes] :
               /\ longFormAnswers' = LongFormFrom(page, 1, outcomes, NoLongForm)
               /\ requested' = ProviderRequests(page)
               /\ generated' = GenerateCalls(page, outcomes)
       ELSE longFormAnswers' = NoLongForm /\ requested' = << >> /\ generated' = << >>
    /\ pc' = "fields"
    /\ UNCHANGED <<server, wallet, config, launched, step, status, page, snapshot, events, clicked, gestures,
                   counters, idleTimedOut, motion>>

\* the document after the clicks of a field pass: clicked checkboxes are checked
AfterPass(pg, log) ==
    LET hit == {log[k].option : k \in {j \in 1..Len(log) : log[j].kind = "checkbox"}}
    IN  [pg EXCEPT !.checkboxes.boxes =
            [i \in 1..Len(pg.checkboxes.boxes) |->
                [pg.checkboxes.boxes[i] EXCEPT !.checked = @ \/ i \in hit]]]

\* a slip: the interacted flag is not tested
AnswerCurrentStepUnchecked ==
    /\ pc = "fields"
    /\ \E log \in FieldPassLogs(page, answers, longFormAnswers) :
          /\ events' = log
          /\ snapshot' = page
          /\ page' = AfterPass(page, log)
          /\ pc' = "advance" /\ passes' = passes + 1 /\ UNCHANGED status
    /\ UNCHANGED <<server, wallet, config, launched, step, longFormAnswers, requested, generated, clicked,
                   gestures, checks, advances, idleWaits, idleTimedOut, motion>>

\* the field pass of answerCurrentStep and the interacted test (lines 572-576, 725-1353):
\* the pass runs inside the document (frame.evaluate) and changes the fields there
AnswerCurrentStep ==
    /\ pc = "fields"
    /\ \E log \in FieldPassLogs(page, answers, longFormAnswers) :
          /\ events' = log
          /\ snapshot' = page
          /\ page' = AfterPass(page, log)
          /\ IF Len(log) = 0
             THEN Finish("stalled-no-interaction") /\ UNCHANGED passes
             ELSE pc' = "advance" /\ passes' = passes + 1 /\ UNCHANGED status
    /\ UNCHANGED <<server, wallet, config, launched, step, longFormAnswers, requested, generated, clicked,
                   gestures, checks, advances, idleWaits, idleTimedOut, motion>>

\* the position moveMouseNaturally leaves the pointer at for a target
Landing(vp, target) == IF vp.known THEN Clamped(vp, target) ELSE target

\* hoverElement, then clickElement on an element with this bounding box (lines 1418-1419,
\* 1446-1447), as a whole: where the pointer ends and where the button went down and up
HoverAndClick(box) ==
    IF box.present
    THEN \E t \in ClickTargets(box) :
            /\ mousePosition' = Landing(viewport, t)
            /\ pointer' = Landing(viewport, t)
            /\ click' = [downAt |-> Landing(viewport, t), upAt |-> Landing(viewport, t),
                         direct |-> FALSE]
    ELSE /\ click' = [downAt |-> NoPoint, upAt |-> NoPoint, direct |-> TRUE]
         /\ UNCHANGED <<mousePosition, pointer>>

\* a slip: a failed advance is not tested and the loop waits and goes on
AdvanceUnchecked ==
    /\ pc = "advance"
    /\ clicked' = clickFirstMatching(page)
    /\ pc' = "idle"
    /\ advances' = IF clicked' = 0 THEN advances ELSE advances + 1
    /\ page' \in Pages \cup {page}
    /\ UNCHANGED status
    /\ UNCHANGED <<server, wallet, config, launched, step, snapshot, longFormAnswers, requested, generated,
                   events, gestures, checks, passes, idleWaits, idleTimedOut, motion>>

\* advance (lines 580-584, 1355-1373): the click may load any page or leave this one
Advance ==
    /\ pc = "advance"
    /\ clicked' = clickFirstMatching(page)
    /\ IF clicked' = 0
       THEN /\ Finish("stalled-no-advance")
            /\ UNCHANGED <<advances, page, gestures, mousePosition, pointer, click>>
       ELSE /\ pc' = "idle"
            /\ advances' = advances + 1
            /\ HoverAndClick(page.box)
            /\ gestures' = gestures + 1
            /\ page' \in Pages \cup {page}
            /\ UNCHANGED status
    /\ UNCHANGED <<server, wallet, config, launched, step, snapshot, longFormAnswers, requested, generated,
                   events, checks, passes, idleWaits, idleTimedOut, viewport, operation>>

\* a slip: the timeout of waitForNetworkIdle is not caught and ends answerSurvey
WaitForIdleThrowing ==
    /\ pc = "idle"
    /\ idleTimedOut' \in BOOLEAN
    /\ idleWaits' = idleWaits + 1
    /\ IF idleTimedOut'
       THEN /\ Finish("stalled-no-advance")
            /\ UNCHANGED <<step, longFormAnswers, requested, generated, events, clicked,
                           gestures, snapshot>>
       ELSE /\ step' = step + 1
            /\ pc' = "loop"
            /\ longFormAnswers' = NoLongForm
            /\ requested' = << >>
            /\ generated' = << >>
            /\ events' = << >>
            /\ clicked' = 0
            /\ gestures' = 0
            /\ snapshot' = page
            /\ UNCHANGED status
    /\ UNCHANGED <<server, wallet, config, launched, page, checks, passes, advances, motion>>

\* waitForIdle and the loop increment (lines 586-587, 1390-1397): a timeout is swallowed
WaitForIdle ==
    /\ pc = "idle"
    /\ idleTimedOut' \in BOOLEAN
    /\ idleWaits' = idleWaits + 1
    /\ step' = step + 1
    /\ pc' = "loop"
    /\ longFormAnswers' = NoLongForm
    /\ requested' = << >>
    /\ generated' = << >>
    /\ events' = << >>
    /\ clicked' = 0
    /\ gestures' = 0
    /\ snapshot' = page
    /\ UNCHANGED <<server, wallet, config, launched, status, page, checks, passes, advances, motion>>

Next ==
    \/ Constructor
    \/ Launch
    \/ CheckCompletion
    \/ BuildLongFormAnswers
    \/ AnswerCurrentStep
    \/ Advance
    \/ WaitForIdle

Spec == Init /\ [][Next]_vars

PcValues == {"new", "failed", "ready", "loop", "longform", "fields", "advance", "idle", "done"}

\* the bot moves on: any step of a bot that has neither ended its run nor failed to be
\* constructed (each one changes pc)
Progress == pc \notin {"done", "failed"} /\ pc' \in PcValues \ {pc}

\* answerSurvey is sequential code whose awaits all return (the lookups and the idle wait
\* have timeouts): a run that has not ended takes its next step
FairSpec == Spec /\ WF_pc(Progress)

(***************************************************************************)
(* The pointer operations step by step: jitterMouse, hoverElement and      *)
(* clickElement, each page.mouse call of moveMouseNaturally being a step.   *)
(***************************************************************************)
\* a control below the viewport and one across its left edge
BelowBox == Rect(600, 900, 120, 40)
EdgeBox == Rect(-40, 10, 60, 30)

\* the bounding boxes of the elements the pointer is sent to, and an element without one
MotionBoxes == {AdvanceBox, BelowBox, EdgeBox, NoBox}

\* the pointer code runs while the bot is logged in and a survey page is open
MotionInit ==
    /\ maxSteps = MaxStepsCap /\ answers = BankEmpty /\ useGpt = FALSE /\ openAIApiKey = ""
    /\ launched = TRUE /\ step = 0 /\ pc = "advance" /\ status = "running"
    /\ page = PageStuck /\ snapshot = PageStuck
    /\ longFormAnswers = NoLongForm /\ requested = << >> /\ generated = << >>
    /\ events = << >> /\ clicked = 0 /\ gestures = 0
    /\ checks = 0 /\ passes = 0 /\ advances = 0 /\ idleWaits = 0
    /\ idleTimedOut = FALSE
    /\ viewport \in Viewports \cup {NoViewport}
    /\ MotionAtRest
    /\ ServerDown /\ ClientUnmounted

\* moveMouseNaturally is entered for a target
EnterMove(kind, box, target, overshoot) ==
    /\ call' = [kind |-> kind, box |-> box, target |-> target, overshoot |-> overshoot]
    /\ mpc' = "enter"
    /\ leg' = NoLeg /\ moved' = 0 /\ seeded' = FALSE
    /\ UNCHANGED <<viewport, mousePosition, pointer>>

\* where the caller of moveMouseNaturally goes on: clickElement presses, the others return
AfterMove == IF call.kind = "click" THEN "press" ELSE "idle"

\* one round of jitterMouse (lines 1503-1514)
JitterMouse ==
    /\ mpc = "idle" /\ viewport.known
    /\ \E target \in PointsOf(viewport, 15, 85) : EnterMove("jitter", NoBox, target, FALSE)
    /\ UNCHANGED <<server, wallet, config, run, click>>

\* hoverElement on an element with a bounding box (lines 1591-1605); without one it returns
HoverElement ==
    /\ mpc = "idle"
    /\ \E box \in MotionBoxes, overshoot \in BOOLEAN :
          /\ box.present
          /\ \E target \in HoverTargets(box) : EnterMove("hover", box, target, overshoot)
    /\ UNCHANGED <<server, wallet, config, run, click>>

\* clickElement (lines 1607-1624): with a bounding box the move to a point of it, then
\* the press and the release; without one element.click()
ClickElement ==
    /\ mpc = "idle"
    /\ \E box \in MotionBoxes :
          IF box.present
          THEN /\ \E target \in ClickTargets(box) : EnterMove("click", box, target, TRUE)
               /\ click' = NoClick
          ELSE /\ click' = [downAt |-> NoPoint, upAt |-> NoPoint, direct |-> TRUE]
               /\ call' = [kind |-> "click", box |-> NoBox, target |-> NoPoint,
                           overshoot |-> FALSE]
               /\ UNCHANGED <<viewport, mousePosition, pointer, mpc, leg, moved, seeded>>
    /\ UNCHANGED <<server, wallet, config, run>>

\* moveMouseNaturally without a viewport (lines 1537-1541)
MoveDirect ==
    /\ mpc = "enter" /\ ~viewport.known
    /\ pointer' = call.target
    /\ mousePosition' = call.target
    /\ mpc' = AfterMove
    /\ UNCHANGED <<server, wallet, config, run, viewport, click, call, leg, moved, seeded>>

\* the seed move of moveMouseNaturally when mousePosition is undefined (lines 1543-1551)
SeedMove ==
    /\ mpc = "enter" /\ viewport.known /\ ~mousePosition.set
    /\ \E seed \in PointsOf(viewport, 25, 75) : pointer' = seed /\ mousePosition' = seed
    /\ seeded' = TRUE
    /\ UNCHANGED <<server, wallet, config, run, viewport, click, mpc, call, leg, moved>>

\* a followPath is entered: segments is drawn
EnterPath(from, to, last) ==
    \E segments \in SegmentCounts :
        leg' = [from |-> from, to |-> to, segments |-> segments, index |-> 1, last |-> last]

\* the first followPath of moveMouseNaturally (lines 1578-1587): to the overshoot point
\* when an overshoot is asked for, else to the target
BeginPath ==
    /\ mpc = "enter" /\ viewport.known /\ mousePosition.set
    /\ IF call.overshoot
       THEN \E over \in OvershootPoints(viewport, call.target) :
               EnterPath(mousePosition, over, FALSE)
       ELSE EnterPath(mousePosition, call.target, TRUE)
    /\ mpc' = "leg"
    /\ UNCHANGED <<server, wallet, config, run, viewport, mousePosition, pointer, click, call, moved, seeded>>

\* one round of the loop of followPath (lines 1561-1570)
IntermediateMove ==
    /\ mpc = "leg" /\ leg.index <= leg.segments
    /\ pointer' \in IntermediatePoints(viewport, leg.from, leg.to, leg.index, leg.segments)
    /\ leg' = [leg EXCEPT !.index = @ + 1]
    /\ moved' = moved + 1
    /\ UNCHANGED <<server, wallet, config, run, viewport, mousePosition, click, mpc, call, seeded>>

\* a slip: followPath ends at the last intermediate point
FinalMoveSkipped ==
    /\ mpc = "leg" /\ leg.index > leg.segments
    /\ moved' = moved + 1
    /\ IF leg.last
       THEN mpc' = "landed" /\ UNCHANGED leg
       ELSE mpc' = "leg" /\ EnterPath(leg.to, call.target, TRUE)
    /\ UNCHANGED <<server, wallet, config, run, viewport, mousePosition, pointer, click, call, seeded>>

\* the move of followPath onto its end (lines 1572-1575); after the overshoot the second
\* followPath starts from there
FinalMove ==
    /\ mpc = "leg" /\ leg.index > leg.segments
    /\ pointer' = Clamped(viewport, leg.to)
    /\ moved' = moved + 1
    /\ IF leg.last
       THEN mpc' = "landed" /\ UNCHANGED leg
       ELSE mpc' = "leg" /\ EnterPath(leg.to, call.target, TRUE)
    /\ UNCHANGED <<server, wallet, config, run, viewport, mousePosition, click, call, seeded>>

\* the last line of moveMouseNaturally (line 1588)
Land ==
    /\ mpc = "landed"
    /\ mousePosition' = Clamped(viewport, call.target)
    /\ mpc' = AfterMove
    /\ UNCHANGED <<server, wallet, config, run, viewport, pointer, click, call, leg, moved, seeded>>

\* page.mouse.down() of clickElement (line 1616)
Press ==
    /\ mpc = "press"
    /\ click' = [click EXCEPT !.downAt = pointer]
    /\ mpc' = "release"
    /\ UNCHANGED <<server, wallet, config, run, viewport, mousePosition, pointer, call, leg, moved, seeded>>

\* page.mouse.up() of clickElement (line 1618)
Release ==
    /\ mpc = "release"
    /\ click' = [click EXCEPT !.upAt = pointer]
    /\ mpc' = "idle"
    /\ UNCHANGED <<server, wallet, config, run, viewport, mousePosition, pointer, call, leg, moved, seeded>>

MotionNext ==
    \/ JitterMouse
    \/ HoverElement
    \/ ClickElement
    \/ MoveDirect
    \/ SeedMove
    \/ BeginPath
    \/ IntermediateMove
    \/ FinalMove
    \/ Land
    \/ Press
    \/ Release

MotionSpec == MotionInit /\ [][MotionNext]_vars

(***************************************************************************)
(* The refund server (src/server/index.ts): the transaction list, the      *)
(* wallet set, the stats and the events sent to WebSocket clients.         *)
(* Amounts of SOL are in thousandths; the id of a transaction is the       *)
(* ordinal of the addTransaction call that made it and stands for its      *)
(* fresh UUID; signatures and timestamps are left out.                     *)
(***************************************************************************)
\* ToNumber of a JavaScript value, as <= and + apply it
ToNumber(v) ==
    CASE v.kind = "number" -> v
      [] v.kind = "null" -> Number(0)
      [] OTHER -> NaN

\* value <= 0: false when either side converts to NaN
NotPositive(v) == ToNumber(v).kind = "number" /\ ToNumber(v).n <= 0

\* !value
Falsy(v) ==
    \/ v.kind \in {"undefined", "null", "NaN"}
    \/ v.kind = "string" /\ v.s = ""
    \/ v.kind = "number" /\ v.n = 0

\* acc + item over numbers
Plus(a, b) ==
    IF ToNumber(a).kind = "NaN" \/ ToNumber(b).kind = "NaN" THEN NaN
    ELSE Number(ToNumber(a).n + ToNumber(b).n)

\* Number(x.toFixed(2)), in thousandths
Fixed2(x) ==
    IF x.kind # "number" THEN NaN
    ELSE IF x.n >= 0 THEN Number(((x.n + 5) \div 10) * 10)
    ELSE Number(0 - (((0 - x.n) + 5) \div 10) * 10)

\* transactions.reduce((acc, item) => acc + item[field], 0), from the head of the list
RECURSIVE reduce(_, _, _, _)
reduce(list, field, acc, k) ==
    IF k > Len(list) THEN acc
    ELSE reduce(list, field, Plus(acc, list[k][field]), k + 1)

\* the server's module state as one value
ServerState ==
    [transactions |-> transactions, uniqueWallets |-> uniqueWallets, stats |-> stats,
     wss |-> wss, sockets |-> sockets, sent |-> sent]

recalcStats(srv) ==
    [srv EXCEPT !.stats =
        [totalUsers |-> Cardinality(srv.uniqueWallets),
         totalAccountsClosed |-> reduce(srv.transactions, "accountsClosed", Number(0), 1),
         totalSolRefunded |->
             Fixed2(reduce(srv.transactions, "refundedSol", Number(0), 1))]]

\* broadcast(event): nothing without a WebSocketServer, else one message to every open client
broadcast(srv, type, payload) ==
    IF ~srv.wss THEN srv
    ELSE [srv EXCEPT !.sent =
             Append(@, [via |-> "broadcast", to |-> srv.sockets, type |-> type,
                        transaction |-> IF type = "transaction" THEN <<payload>> ELSE << >>,
                        stats |-> IF type = "stats" THEN <<payload>> ELSE << >>])]

\* the transaction addTransaction builds from its entry
NewTransaction(srv, entry) ==
    [id |-> Len(srv.transactions) + 1,
     walletAddress |-> entry.walletAddress,
     accountsClosed |-> entry.accountsClosed,
     refundedSol |-> entry.refundedSol]

addTransactionAtEnd(srv, entry) ==
    LET transaction == NewTransaction(srv, entry)
        stored == recalcStats([srv EXCEPT
                      !.transactions = Append(@, transaction),
                      !.uniqueWallets = @ \cup {transaction.walletAddress}])
        first == broadcast(stored, "transaction", transaction)
    IN  broadcast(first, "stats", first.stats)

addTransaction(srv, entry) ==
    LET transaction == NewTransaction(srv, entry)
        stored == recalcStats([srv EXCEPT
                      !.transactions = <<transaction>> \o @,
                      !.uniqueWallets = @ \cup {transaction.walletAddress}])
        first == broadcast(stored, "transaction", transaction)
    IN  broadcast(first, "stats", first.stats)

\* seedData: the wallets, with accountsClosed 3 + index and refundedSol 1.45 + index * 0.37
SeedWallets ==
    <<"9sVn1Gv1dQxwT4sAX9JUo9wTpeB6mFDZcnQ1kz7mLREF",
      "D4ftr7W9psH9M2sQ1wzF6nJ8kL2pQ7xT1yV5bC3nMvPQ",
      "7QwLp9sF4kT2vX6nR1pZ8mB3cH7tY5dL2sV9qK4jFtGh",
      "A1sD3fG5hJ7kL9zX2cV4bN6mQ8wE1rT3yU5iO7pL9aSd",
      "C9vB7nM5qL3kJ1hG7fD5sA3pL9oK7iU5yT3rE1wQ9zX7">>

SeedEntry(index) ==
    [walletAddress |-> Str(SeedWallets[index + 1]),
     accountsClosed |-> Number(3 + index),
     refundedSol |-> Number(1450 + index * 370)]

RECURSIVE seedFrom(_, _)
seedFrom(srv, index) ==
    IF index >= Len(SeedWallets) THEN srv
    ELSE seedFrom(addTransaction(srv, SeedEntry(index)), index + 1)

seedData(srv) == seedFrom(srv, 0)

\* the module state once src/server/index.ts has been evaluated: seedData has run and
\* bootstrap has not yet made the WebSocketServer
Seeded ==
    seedData([transactions |-> << >>, uniqueWallets |-> {}, stats |-> ZeroStats,
              wss |-> FALSE, sockets |-> {}, sent |-> << >>])

\* no bot has been constructed
BotNotStarted ==
    /\ maxSteps = 0 /\ answers = BankEmpty /\ useGpt = FALSE /\ openAIApiKey = ""
    /\ launched = FALSE /\ step = 0 /\ pc = "new" /\ status = "running"
    /\ page = PageStuck /\ snapshot = PageStuck
    /\ longFormAnswers = NoLongForm /\ requested = << >> /\ generated = << >>
    /\ events = << >> /\ clicked = 0 /\ gestures = 0
    /\ checks = 0 /\ passes = 0 /\ advances = 0 /\ idleWaits = 0
    /\ idleTimedOut = FALSE
    /\ viewport = NoViewport
    /\ MotionAtRest

\* POST requests that add a transaction, and WebSocket clients, in a run of the model
MaxPosts == 1
MaxSockets == 1

NoBody == [walletAddress |-> Undefined, accountsClosed |-> Undefined, refundedSol |-> Undefined]
NoResponse == [status |-> 0, body |-> NoBody]

\* the request bodies: req.body ?? {} makes an absent body the one with every field missing
Bodies ==
    [walletAddress : {Undefined, Str(SeedWallets[1]), Str("NewWallet111")},
     accountsClosed : {Undefined, Number(0), Number(2)},
     refundedSol : {Undefined, Number(0), Number(1234)}]

ServerInit ==
    /\ transactions = Seeded.transactions
    /\ uniqueWallets = Seeded.uniqueWallets
    /\ stats = Seeded.stats
    /\ wss = Seeded.wss
    /\ sockets = Seeded.sockets
    /\ sent = Seeded.sent
    /\ response = NoResponse
    /\ ClientUnmounted
    /\ BotNotStarted

\* bootstrap: the WebSocketServer is made, then the server listens
Bootstrap ==
    /\ ~wss
    /\ wss' = TRUE
    /\ UNCHANGED <<transactions, uniqueWallets, stats, sockets, sent, response, wallet, bot>>

\* the sockets that have connected so far
Greeted == {k \in 1..Len(sent) : sent[k].via = "send"}

\* wss.on("connection"): the new socket alone is sent the current stats
Connection ==
    /\ wss
    /\ Cardinality(Greeted) < MaxSockets
    /\ LET socket == Cardinality(Greeted) + 1
       IN  /\ sockets' = sockets \cup {socket}
           /\ sent' = Append(sent, [via |-> "send", to |-> {socket}, type |-> "stats",
                                    transaction |-> << >>, stats |-> <<stats>>])
    /\ UNCHANGED <<transactions, uniqueWallets, stats, wss, response, wallet, bot>>

\* a client leaves: its readyState is no longer OPEN
Close ==
    /\ \E socket \in sockets : sockets' = sockets \ {socket}
    /\ UNCHANGED <<transactions, uniqueWallets, stats, wss, sent, response, wallet, bot>>

\* app.post("/api/transactions"), served once the server listens
PostTransaction ==
    /\ wss
    /\ \E body \in Bodies :
          IF Falsy(body.walletAddress) \/ NotPositive(body.accountsClosed)
                \/ NotPositive(body.refundedSol)
          THEN /\ response' = [status |-> 400, body |-> body]
               /\ UNCHANGED <<transactions, uniqueWallets, stats, sent>>
          ELSE /\ Len(transactions) < Len(SeedWallets) + MaxPosts
               /\ LET after == addTransaction(ServerState, body)
                  IN  /\ transactions' = after.transactions
                      /\ uniqueWallets' = after.uniqueWallets
                      /\ stats' = after.stats
                      /\ sent' = after.sent
               /\ response' = [status |-> 201, body |-> body]
    /\ UNCHANGED <<wss, sockets, wallet, bot>>

ServerNext ==
    \/ Bootstrap
    \/ Connection
    \/ Close
    \/ PostTransaction

ServerSpec == ServerInit /\ [][ServerNext]_vars

(***************************************************************************)
(* The wallet flow of the client (src/client/src/App.tsx): walletState,    *)
(* the two timers handleConnect starts and the request of handleRefund.    *)
(* Time passes in steps of 200 ms; a timer runs when its delay is over.    *)
(* Amounts of SOL are in hundredths.                                       *)
(***************************************************************************)
WALLET_PROVIDERS == {"Phantom", "Solflare"}

\* the delays of the two setTimeout calls of handleConnect, in ms
ScanningDelay == 600
ReadyDelay == 2000

\* connects accepted in a run of the model
MaxConnects == 2

\* createMockAddress: a random address
MockAddresses == {"MockAddressOne", "MockAddressTwo"}

\* Math.floor(Math.random() * 6) + 3
MockAccounts == {3, 8}

\* Number((accounts * (0.18 + Math.random() * 0.05)).toFixed(2)): the least and a large value
MockSol(accounts) == {accounts * 18, accounts * 22}

WalletInit ==
    /\ ClientUnmounted
    /\ ServerDown
    /\ BotNotStarted

\* a pending timer of the connect numbered session
Timer(provider, delay, session) ==
    [provider |-> provider, delay |-> delay, left |-> delay, session |-> session]

\* handleConnect(provider): a click on a provider button
handleConnect ==
    /\ walletState.status = "disconnected"
    /\ sessions < MaxConnects
    /\ \E provider \in WALLET_PROVIDERS, walletAddress \in MockAddresses :
          /\ walletState' = [status |-> "connecting", provider |-> provider,
                             walletAddress |-> walletAddress, accountsFound |-> 0,
                             solAvailable |-> 0, signature |-> "", error |-> ""]
          /\ timers' = timers \cup {Timer(provider, ScanningDelay, sessions + 1),
                                    Timer(provider, ReadyDelay, sessions + 1)}
    /\ sessions' = sessions + 1
    /\ UNCHANGED <<requests, server, bot>>

\* the timers whose delay is over
Due == {t \in timers : t.left = 0}

\* time passes while no timer is due
Tick ==
    /\ timers # {} /\ Due = {}
    /\ timers' = {[t EXCEPT !.left = @ - 200] : t \in timers}
    /\ UNCHANGED <<walletState, sessions, requests, server, bot>>

\* the callback of the first setTimeout
ScanningTimer ==
    /\ \E t \in Due :
          /\ t.delay = ScanningDelay
          /\ timers' = timers \ {t}
          /\ walletState' = IF walletState.provider = t.provider
                            THEN [walletState EXCEPT !.status = "scanning"]
                            ELSE walletState
    /\ UNCHANGED <<sessions, requests, server, bot>>

\* the callback of the second setTimeout
ReadyTimer ==
    /\ \E t \in Due :
          /\ t.delay = ReadyDelay
          /\ timers' = timers \ {t}
          /\ \E accounts \in MockAccounts : \E sol \in MockSol(accounts) :
                walletState' = IF walletState.provider = t.provider
                               THEN [walletState EXCEPT !.status = "ready",
                                                        !.accountsFound = accounts,
                                                        !.solAvailable = sol]
                               ELSE walletState
    /\ UNCHANGED <<sessions, requests, server, bot>>

\* handleRefund up to its await: a click on the refund button
handleRefund ==
    /\ walletState.status = "ready" /\ walletState.walletAddress # ""
    /\ walletState' = [walletState EXCEPT !.status = "refunding", !.error = ""]
    /\ requests' = requests + 1
    /\ UNCHANGED <<timers, sessions, server, bot>>

\* handleRefund after its await: the request was answered with a transaction
RefundResolved ==
    /\ requests > 0
    /\ requests' = requests - 1
    /\ walletState' = [walletState EXCEPT !.status = "success", !.signature = "txSignature"]
    /\ UNCHANGED <<timers, sessions, server, bot>>

\* handleRefund after its await: fetchJSON threw
RefundRejected ==
    /\ requests > 0
    /\ requests' = requests - 1
    /\ walletState' = [walletState EXCEPT !.status = "error", !.error = "message"]
    /\ UNCHANGED <<timers, sessions, server, bot>>

\* handleReset: a click on "Reset Demo Flow" or on "Change wallet"
handleReset ==
    /\ walletState' = initialWalletState
    /\ UNCHANGED <<timers, sessions, requests, server, bot>>

WalletNext ==
    \/ handleConnect
    \/ Tick
    \/ ScanningTimer
    \/ ReadyTimer
    \/ handleRefund
    \/ RefundResolved
    \/ RefundRejected
    \/ handleReset

WalletSpec == WalletInit /\ [][WalletNext]_vars

(***************************************************************************)
(* Properties of the pointer operations, under MotionSpec.                  *)
(***************************************************************************)
\* a moveMouseNaturally with a known viewport has returned to its caller
MoveReturned ==
    /\ viewport.known /\ call.target.set
    /\ mpc \in {"idle", "press", "release"}

\* C12: with a known viewport every moveMouseNaturally, with or without overshoot and
\* from any start, makes its last pointer move exactly onto the target clamped to
\* [1, width-1] x [1, height-1], and once it has returned mousePosition is that point.
MoveEndsOnClampedTarget ==
    /\ (viewport.known /\ mpc = "landed") => pointer = Clamped(viewport, call.target)
    /\ MoveReturned =>
          /\ pointer = Clamped(viewport, call.target)
          /\ mousePosition = Clamped(viewport, call.target)
          /\ mousePosition.x \in 1..(viewport.width - 1)
          /\ mousePosition.y \in 1..(viewport.height - 1)

\* a move with overshoot to a target outside the viewport has returned, and so has one
\* without overshoot
MoveEndsOnClampedTargetWitness ==
    /\ MoveReturned /\ mpc = "idle" /\ moved > 0
    /\ \/ call.overshoot /\ call.box = BelowBox /\ mousePosition # call.target
       \/ ~call.overshoot /\ call.kind = "jitter" /\ mousePosition = call.target

\* the pointer moves of a moveMouseNaturally before its last one, the seed move included
MovesBeforeFinal == (moved - 1) + (IF seeded THEN 1 ELSE 0)

\* C13 as stated: every moveMouseNaturally, with or without overshoot, makes between 2
\* and 4 pointer moves before its final move onto the target.
IntermediateCountAsStated ==
    (viewport.known /\ mpc = "landed") => MovesBeforeFinal \in 2..4

\* C13, amended: every followPath makes between 2 and 4 intermediate moves; a
\* moveMouseNaturally without overshoot is one followPath, so 2 to 4 moves precede its
\* final move; with overshoot it is two, so 5 to 9 moves precede it (the final move of the
\* first path onto the overshoot point among them); one more when it had to seed.
IntermediateCount ==
    /\ mpc \in {"leg", "landed"} => leg.segments \in 2..4 /\ leg.index \in 1..(leg.segments + 1)
    /\ (viewport.known /\ mpc = "landed") =>
          MovesBeforeFinal - (IF seeded THEN 1 ELSE 0)
             \in (IF call.overshoot THEN 5..9 ELSE 2..4)

\* a move with overshoot has made nine moves before its final one
IntermediateCountWitness ==
    /\ viewport.known /\ mpc = "landed" /\ call.overshoot /\ ~seeded
    /\ MovesBeforeFinal = 9

\* C19 as stated: when clickElement has a bounding box, the press and the release happen
\* at a pointer position inside that box; element.click() is used exactly when there is
\* no box; and a press is followed by a release before clickElement returns.
PressInsideBox ==
    /\ (call.kind = "click" /\ call.box.present /\ click.downAt.set) =>
          Inside(click.downAt, call.box)
    /\ (call.kind = "click" /\ call.box.present /\ click.upAt.set) =>
          Inside(click.upAt, call.box)
    /\ call.kind = "click" => (click.direct <=> ~call.box.present)
    /\ (call.kind = "click" /\ mpc = "idle" /\ click.downAt.set) => click.upAt = click.downAt

\* the parts of C19 that hold: the press and the release are at one position, the target
\* clamped to the viewport; element.click() exactly without a box; release follows press
PressAndRelease ==
    /\ (call.kind = "click" /\ click.downAt.set) =>
          /\ call.box.present /\ ~click.direct
          /\ click.downAt = (IF viewport.known THEN Clamped(viewport, call.target)
                             ELSE call.target)
          /\ call.target \in ClickTargets(call.box)
    /\ call.kind = "click" => (click.direct <=> ~call.box.present)
    /\ (call.kind = "click" /\ mpc = "idle" /\ click.downAt.set) => click.upAt = click.downAt
    /\ click.upAt.set => click.downAt.set

(***************************************************************************)
(* Properties of the step loop.                                            *)
(***************************************************************************)

StepCapAsStated ==
    /\ step <= maxSteps /\ checks <= maxSteps /\ passes <= maxSteps /\ advances <= maxSteps
    /\ status = "max-steps-reached" =>
          step = maxSteps /\ checks = maxSteps /\ passes = maxSteps /\ advances = maxSteps

\* the number of steps a configured maxSteps allows
StepLimit == Max({maxSteps, 0})

\* C2, amended: a run never makes more than max(maxSteps, 0) steps or advance clicks, and
\* it ends with max-steps-reached only after exactly that many steps, each of which found
\* no completion text, interacted with a field and activated an advance control; with a
\* negative maxSteps that is at once, before any step.
StepCap ==
    /\ step <= StepLimit /\ checks <= StepLimit /\ passes <= StepLimit /\ advances <= StepLimit
    /\ status = "max-steps-reached" =>
          step = StepLimit /\ checks = StepLimit /\ passes = StepLimit /\ advances = StepLimit
    /\ (maxSteps < 0 /\ pc = "done") => status = "max-steps-reached"

StepCapWitness ==
    status = "max-steps-reached" /\ maxSteps = MaxStepsCap /\ advances = MaxStepsCap

\* C3: a completion check that finds completion text ends the run as completed in that
\* step, before any long-form request, field change or advance click of the step; at the
\* first check this is step 1.
CompletionEndsRun ==
    /\ [][pc = "loop" /\ step < maxSteps /\ hasCompletedSurvey(page) =>
             /\ status' = "completed" /\ pc' = "done"
             /\ UNCHANGED <<step, events, requested, clicked, counters>>]_vars
    /\ [](status = "completed" =>
             /\ hasCompletedSurvey(page)
             /\ events = << >> /\ requested = << >> /\ clicked = 0)
    /\ [](pc = "done" /\ step = 0 /\ maxSteps > 0 /\ hasCompletedSurvey(page) =>
             status = "completed" /\ checks = 0 /\ passes = 0 /\ advances = 0)

CompletionEndsRunWitness ==
    status = "completed" /\ step = 0 /\ page = PageEarned /\ useGpt

\* the snapshot holds no field at all
EmptySnapshot(pg) ==
    /\ Len(pg.radios) = 0 /\ Len(pg.checkboxes.boxes) = 0 /\ Len(pg.selects) = 0
    /\ Len(pg.textInputs) = 0 /\ Len(pg.textareas) = 0

\* C4: a field pass that interacts with no field group (an empty snapshot is one case)
\* ends the run as stalled-no-interaction in that step, without any advance click and
\* without a later step, so such a run does not reach max-steps-reached.
NoInteractionStalls ==
    /\ [][pc = "fields" /\ (events' = << >> \/ EmptySnapshot(page)) =>
             /\ status' = "stalled-no-interaction" /\ pc' = "done" /\ events' = << >>
             /\ UNCHANGED <<step, clicked, advances, idleWaits>>]_vars
    /\ [](status = "stalled-no-interaction" =>
             events = << >> /\ clicked = 0 /\ passes = step /\ advances = step)
    /\ [](status = "max-steps-reached" => passes = step)

NoInteractionStallsWitness ==
    /\ status = "stalled-no-interaction" /\ step = 0 /\ maxSteps > 1
    /\ EmptySnapshot(snapshot) /\ snapshot.advance # {}

\* C5: when the field pass interacted and no advance matcher yields an element that is
\* clicked, the run ends as stalled-no-advance: no retry, no idle wait, no later step.
NoAdvanceStalls ==
    /\ [][pc = "advance" /\ page.advance = {} =>
             /\ status' = "stalled-no-advance" /\ pc' = "done"
             /\ UNCHANGED <<step, events, advances, idleWaits>>]_vars
    /\ [](status = "stalled-no-advance" =>
             events # << >> /\ clicked = 0 /\ idleWaits = step /\ advances = step)

NoAdvanceStallsWitness ==
    status = "stalled-no-advance" /\ page = PageStuck /\ step > 0

(***************************************************************************)
(* Properties of the field pass.  A state with events # << >> holds the    *)
(* field changes of the current step and, in snapshot, the document the    *)
(* pass found.                                                             *)
(***************************************************************************)
\* the prompts of the field groups of a page
PromptsOf(pg) ==
    {pg.radios[i].prompt : i \in 1..Len(pg.radios)} \cup {pg.checkboxes.prompt}
        \cup {pg.selects[i].prompt : i \in 1..Len(pg.selects)}
        \cup {pg.textInputs[i].prompt : i \in 1..Len(pg.textInputs)}
        \cup {pg.textareas[i].prompt : i \in 1..Len(pg.textareas)}

Prompts == UNION {PromptsOf(pg) : pg \in Pages}

\* detectAttentionInstruction tabulated over the prompts of the scripted pages
Directives == [p \in Prompts |-> detectAttentionInstruction(p)]

\* the options among the usable ones whose text matches one of the targets
MatchingOptions(texts, usable, targets) ==
    {i \in 1..Len(texts) :
        usable[i] /\ \E t \in 1..Len(targets) : LabelMatches(texts[i], targets[t])}

\* the prompt of the field group an event belongs to
PromptOf(ev) ==
    IF ev.kind = "radio" THEN snapshot.radios[ev.group].prompt
    ELSE IF ev.kind = "checkbox" THEN snapshot.checkboxes.prompt
    ELSE IF ev.kind = "select" THEN snapshot.selects[ev.group].prompt
    ELSE IF ev.kind = "text" THEN snapshot.textInputs[ev.group].prompt
    ELSE snapshot.textareas[ev.group].prompt

\* C6: in a radio group whose prompt's directive has a label target matching the label
\* of some option, the option clicked matches a label target, whatever the answer bank
\* holds for the prompt; under "Please select 'Blue' to verify you are paying attention"
\* with options Red, Green, Blue, Yellow the option clicked is Blue.
RadioLabelTargetWins ==
    /\ \A k \in 1..Len(events) :
          events[k].kind = "radio" =>
             LET group == snapshot.radios[events[k].group]
                 texts == RadioTexts(group)
                 matching == MatchingOptions(texts, AllUsable(Len(texts)),
                                 Directives[group.prompt].labelTargets)
             IN  matching # {} => events[k].option \in matching /\ events[k].stage = "label"
    /\ (snapshot = PageBlue /\ events # << >>) =>
          /\ Len(events) = 1
          /\ snapshot.radios[1].labels[events[1].option] = "Blue"

RadioLabelTargetWinsWitness ==
    /\ snapshot = PageBlue /\ answers = BankRed /\ Len(events) = 1
    /\ events[1].entry = 1
    /\ answers[1].answers[1].raw = "Red"
    /\ events[1].option = 3 /\ events[1].stage = "label"

\* C7 as stated: in a select, an option the attention stages (label target, preferred
\* keyword, index target) yield is the option finally selected, whatever the answer bank
\* holds for the prompt.
SelectAttentionFinal ==
    \A k \in 1..Len(events) :
       events[k].kind = "select" =>
          LET select == snapshot.selects[events[k].group]
              att == SelectAttention(SelectTexts(select), SelectUsable(select),
                                     Directives[select.prompt])
          IN  att.option # 0 => events[k].option = att.option

\* C8 as stated: "Choose the third option" parses to the index targets {3}, and a radio
\* group with options A, B, C, D under that prompt gets C clicked.
ThirdOptionSelected ==
    /\ Directives[ThirdPrompt].indexTargets = <<3>>
    /\ (snapshot = PageThird /\ events # << >>) =>
          snapshot.radios[1].labels[events[1].option] = "C"

\* C9 as stated: "Type the word banana to confirm you read this" parses to the typed
\* value "banana", and a short-text input under that prompt is filled with "banana".
BananaTyped ==
    /\ Directives[BananaPrompt].typedValue = "banana"
    /\ (snapshot = PageBanana /\ events # << >>) => events[1].value = "banana"

\* C10 as stated: a field group whose prompt has no directive and contains the
\* normalized question of a bank entry is never resolved by the random or default stage.
BankNeverFallsBack ==
    \A k \in 1..Len(events) :
       LET prompt == PromptOf(events[k])
       IN  (/\ ~Directives[prompt].present
            /\ \E e \in 1..Len(answers) :
                  answers[e].question # "" /\ Includes(normalize(prompt), answers[e].question))
           => events[k].stage \notin {"random", "default"}

\* the bank entry findEntry gave the field group of an event when its prompt has no
\* directive, 0 when it has one or findEntry gave none
PlainEntry(ev) ==
    IF Directives[PromptOf(ev)].present THEN 0 ELSE ev.entry

\* the first checkbox whose label matches the answer, 0 when none does
FirstBox(texts, answer) == FindFirst({i \in 1..Len(texts) : LabelMatches(texts[i], answer)})

\* C10, amended: for a field group whose prompt has no directive and for which findEntry
\* returns an entry, that entry decides the field whenever one of its answers applies: a
\* radio group or select gets an option matching one of its answers when some (usable)
\* option matches one, and the random or default stage only otherwise; a checkbox set
\* gets clicks on boxes matching its answers when an answer's first match is unchecked,
\* and random clicks only otherwise; a short-text input gets its first answer; a
\* textarea gets the long-form answer of its key when there is one, else its first answer.
BankEntryApplies ==
    \A k \in 1..Len(events) :
       LET ev == events[k]
           e == PlainEntry(ev)
           wanted == NormalizedAnswers(answers[e])
       IN  e # 0 =>
             CASE ev.kind = "radio" ->
                    LET texts == RadioTexts(snapshot.radios[ev.group])
                        hits == MatchingOptions(texts, AllUsable(Len(texts)), wanted)
                    IN  IF hits # {} THEN ev.stage = "bank" /\ ev.option \in hits
                        ELSE ev.stage = "random"
               [] ev.kind = "select" ->
                    LET select == snapshot.selects[ev.group]
                        hits == MatchingOptions(SelectTexts(select), SelectUsable(select), wanted)
                    IN  IF hits # {} THEN ev.stage = "bank" /\ ev.option \in hits
                        ELSE ev.stage = "default"
               [] ev.kind = "checkbox" ->
                    LET boxes == snapshot.checkboxes.boxes
                        texts == [i \in 1..Len(boxes) |-> normalize(boxes[i].label)]
                        open == {a \in 1..Len(wanted) :
                                    /\ FirstBox(texts, wanted[a]) # 0
                                    /\ ~boxes[FirstBox(texts, wanted[a])].checked}
                    IN  /\ ~boxes[ev.option].checked
                        /\ IF open # {}
                           THEN /\ ev.stage = "bank"
                                /\ \E a \in open : ev.option = FirstBox(texts, wanted[a])
                           ELSE ev.stage = "random"
               [] ev.kind = "text" ->
                    ev.stage = "bank" /\ ev.value = answers[e].answers[1].raw
               [] ev.kind = "textarea" ->
                    LET key == answerKey(snapshot.textareas[ev.group], ev.group - 1)
                    IN  IF key \in DOMAIN longFormAnswers
                        THEN ev.stage = "longform" /\ ev.value = longFormAnswers[key]
                        ELSE ev.stage = "bank" /\ ev.value = answers[e].answers[1].raw

BankEntryAppliesWitness ==
    /\ snapshot = PagePlain /\ answers = BankRed /\ Len(events) >= 4
    /\ events[1].stage = "bank" /\ events[1].option = 1
    /\ events[2].stage = "random"
    /\ \E k \in 1..Len(events) : events[k].kind = "checkbox" /\ events[k].stage = "random"
    /\ \E k \in 1..Len(events) :
          events[k].kind = "text" /\ events[k].stage = "bank" /\ events[k].value = "Paris"

(***************************************************************************)
(* Properties of the construction and of the long-form responder.           *)
(***************************************************************************)
\* C14: when long-form generation is enabled and no API key is given, the construction
\* fails: the browser is never launched, no step is made, no field is touched and no
\* long-form request is issued, ever.
NoKeyNoRun ==
    (useGpt /\ openAIApiKey = "" /\ pc # "new") =>
        /\ pc = "failed" /\ ~launched /\ status = "running"
        /\ step = 0 /\ checks = 0 /\ passes = 0 /\ advances = 0 /\ idleWaits = 0
        /\ events = << >> /\ clicked = 0 /\ gestures = 0
        /\ requested = << >> /\ generated = << >> /\ longFormAnswers = NoLongForm
        /\ ~mousePosition.set /\ ~pointer.set

\* the construction has failed
NoKeyNoRunWitness == pc = "failed" /\ useGpt /\ openAIApiKey = "" /\ ~launched

\* the textareas (1-based positions) generate was called for in the current step
Generated == {generated[k].target : k \in 1..Len(generated)}

\* the field pass of the current step has filled textarea i with longFormAnswers[key]
FilledByLongForm(i) ==
    \E k \in 1..Len(events) :
        events[k].kind = "textarea" /\ events[k].group = i /\ events[k].stage = "longform"

\* the targets loop of the current step has run on the snapshot
LongFormBuilt == useGpt /\ openAIApiKey # "" /\ pc \in {"fields", "advance", "idle"}

\* the part of C11 about requests: generate is called for a textarea exactly when
\* rows > 2, minLength >= 120 or the collected prompt has at least 40 characters
GenerateIffOpenEnded ==
    LongFormBuilt =>
        \A i \in 1..Len(snapshot.textareas) :
            i \in Generated <=> \/ snapshot.textareas[i].rows > 2
                                \/ snapshot.textareas[i].minLength >= 120
                                \/ Len(snapshot.textareas[i].collected) >= 40

\* C11 as stated: with a responder configured, generate is called for a textarea if and
\* only if rows > 2 or minLength >= 120 or its collected prompt has length >= 40; a
\* textarea with rows = 1 and a prompt of length 10 never receives a generated long-form
\* answer; for a textarea with minLength = 150 generate is always called.
LongFormEligibility ==
    /\ GenerateIffOpenEnded
    /\ LongFormBuilt =>
          \A i \in 1..Len(snapshot.textareas) :
              /\ (/\ snapshot.textareas[i].rows = 1
                  /\ Len(snapshot.textareas[i].collected) = 10
                  /\ snapshot.textareas[i].minLength < 120) => ~FilledByLongForm(i)
              /\ snapshot.textareas[i].minLength = 150 => i \in Generated

\* the provider failed in call k of the current step: it threw or returned no text
ProviderFailed(k) == generated[k].outcome.threw \/ Trim(generated[k].outcome.text) = ""

\* the field pass of the current step has filled textarea i with a non-empty value
FilledNonEmpty(i) ==
    \E k \in 1..Len(events) :
        events[k].kind = "textarea" /\ events[k].group = i /\ events[k].value # ""

\* C15: a failure of the provider (an exception or an empty output) stays inside
\* generate and does not end the step: generate returns the request's fallback, which is
\* not empty, the field pass runs after the targets loop, and it fills the textarea with
\* a non-empty value.
ProviderFailureContained ==
    /\ [](LongFormBuilt =>
            \A k \in 1..Len(generated) :
                ProviderFailed(k) =>
                    /\ generated[k].response =
                          requestFallback(snapshot.textareas[generated[k].target])
                    /\ generated[k].response # ""
                    /\ pc \in {"advance", "idle"} => FilledNonEmpty(generated[k].target))
    /\ [][pc = "longform" => pc' = "fields"]_vars
    /\ [][(pc = "fields" /\ snapshot.textareas # << >>) =>
             (pc' = "advance" /\ status' = "running" /\ passes' = passes + 1)]_vars

\* the provider threw for the only open-ended textarea of the page and the field pass has
\* filled that textarea with the fallback
ProviderFailureContainedWitness ==
    /\ LongFormBuilt /\ pc = "advance" /\ snapshot = PageHoliday
    /\ Len(generated) = 1 /\ generated[1].outcome.threw
    /\ \E k \in 1..Len(events) :
          /\ events[k].kind = "textarea" /\ events[k].group = 1
          /\ events[k].stage = "longform" /\ events[k].value = DefaultLongForm

(***************************************************************************)
(* Properties of the field pass.                                            *)
(***************************************************************************)
\* C16 as stated: every change the field pass makes to a field (a radio option, checkbox
\* or select choice activated, a text field filled) is made through the pointer
\* operations of the bot: one simulated pointer operation (hoverElement, clickElement,
\* or a focus and type through them) per changed field, within the pass.
FieldsThroughSimulator ==
    [][(events' # events /\ events' # << >>) => gestures' >= gestures + Len(events')]_vars

\* the place of a kind of field in the fixed order of the pass
KindRank(kind) ==
    CASE kind = "radio" -> 1 [] kind = "checkbox" -> 2 [] kind = "select" -> 3
      [] kind = "text" -> 4 [] kind = "textarea" -> 5

\* the groups of a kind that the pass of the current step has changed
GroupsChanged(kind) == {events[k].group : k \in {j \in 1..Len(events) : events[j].kind = kind}}

\* documents of up to three visible radio inputs of two names, in every interleaving
RadioDocuments ==
    UNION {[1..n -> {RadioInput("q1", GenderPrompt, "Male"), RadioInput("q2", ColorPrompt, "Red")}] :
              n \in 0..3}

\* the position of the first radio input of a document under a question
FirstMember(document, prompt) ==
    IF \E i \in 1..Len(document) : document[i].prompt = prompt
    THEN CHOOSE i \in 1..Len(document) :
            /\ document[i].prompt = prompt
            /\ \A j \in 1..(i - 1) : document[j].prompt # prompt
    ELSE 0

\* the radio groups of a document are in the order in which their first members are met
EncounterOrder(document, groups) ==
    /\ \A g \in 1..Len(groups) : FirstMember(document, groups[g].prompt) > 0
    /\ \A g, h \in 1..Len(groups) :
          g < h => FirstMember(document, groups[g].prompt)
                      < FirstMember(document, groups[h].prompt)
    /\ \A i \in 1..Len(document) : \E g \in 1..Len(groups) : groups[g].prompt = document[i].prompt

\* C17: every field pass changes the fields in one fixed order: the radio groups, in the
\* order in which the first radio input of each group is met in the document, then the
\* checkboxes, then the selects, then the short-text inputs, of which only the first two
\* visible ones are filled, then the textareas.
FieldOrder ==
    /\ \A j, k \in 1..Len(events) :
          j < k =>
             /\ KindRank(events[j].kind) <= KindRank(events[k].kind)
             /\ events[j].kind = events[k].kind =>
                   IF events[j].kind = "checkbox" THEN events[j].group = events[k].group
                   ELSE events[j].group < events[k].group
    /\ events # << >> =>
          /\ GroupsChanged("radio") = 1..Len(snapshot.radios)
          /\ GroupsChanged("select") \subseteq 1..Len(snapshot.selects)
          /\ GroupsChanged("text") = 1..Min({2, Len(snapshot.textInputs)})
          /\ GroupsChanged("textarea") = 1..Len(snapshot.textareas)
    /\ \A document \in RadioDocuments : EncounterOrder(document, radiosByName(document))

\* a pass over a page with fields of every kind, two interleaved radio groups and three
\* short-text inputs has changed all five kinds and left the third short-text input alone
FieldOrderWitness ==
    /\ pc = "advance" /\ snapshot.bodyText = "Question 10"
    /\ snapshot.radios[1].prompt = GenderPrompt /\ snapshot.radios[2].prompt = ColorPrompt
    /\ Len(snapshot.textInputs) = 3
    /\ {events[k].kind : k \in 1..Len(events)} =
          {"radio", "checkbox", "select", "text", "textarea"}
    /\ events[1].kind = "radio" /\ events[1].group = 1
    /\ events[Len(events)].kind = "textarea"
    /\ GroupsChanged("text") = {1, 2}

(***************************************************************************)
(* Properties of detectAttentionInstruction on the prompts of the pages.    *)
(***************************************************************************)
\* the elements of a sequence
Range(seq) == {seq[i] : i \in 1..Len(seq)}

\* C18 as stated: for the prompt "Please select 'Blue' to verify you are paying
\* attention" detectAttentionInstruction returns a directive whose label targets are
\* exactly {"blue"}.
BlueIsOnlyLabelTarget ==
    \A p \in PromptsOf(snapshot) :
        p = BluePrompt => Directives[p].present /\ Range(Directives[p].labelTargets) = {"blue"}

\* C18, amended: for that prompt the label targets are "blue", from the quoted phrase,
\* followed by "attention", from the fixed phrases found in the text; "blue" is the first.
BlueThenAttention ==
    \A p \in PromptsOf(snapshot) :
        p = BluePrompt => Directives[p].labelTargets = <<"blue", "attention">>

\* no element occurs twice in the sequence
NoDuplicates(seq) == \A i, j \in 1..Len(seq) : i # j => seq[i] # seq[j]

\* a directive as detectAttentionInstruction may return it
WellFormed(d) ==
    /\ \/ Len(d.labelTargets) > 0 \/ Len(d.indexTargets) > 0
       \/ d.typedValue # "" \/ Len(d.preferredKeywords) > 0
    /\ \A t \in Range(d.labelTargets) \cup Range(d.preferredKeywords) :
          t # "" /\ normalize(t) = t
    /\ NoDuplicates(d.labelTargets) /\ NoDuplicates(d.preferredKeywords)
    /\ \A n \in Range(d.indexTargets) : n \in Nat \ {0}
    /\ NoDuplicates(d.indexTargets)

\* C20: for every prompt detectAttentionInstruction returns either nothing or a directive
\* of which at least one of labelTargets, indexTargets, typedValue and preferredKeywords
\* is not empty; its label targets and keywords are non-empty normalized strings without
\* duplicates and its index targets are positive integers.
DirectivesWellFormed ==
    \A p \in PromptsOf(snapshot) :
        IF Directives[p].present THEN WellFormed(Directives[p])
        ELSE Directives[p] = NoDirective

\* the page in front of the bot asks for 'Red' twice and for 'cats and dogs', for option
\* 0, for the third option in three ways and for a blank typed value, and the parser has
\* returned one target per distinct request and nothing for the blank
DirectivesWellFormedWitness ==
    /\ pc = "advance" /\ {PairPrompt, ZeroPrompt, TwicePrompt, BlankPrompt} \subseteq PromptsOf(snapshot)
    /\ Directives[PairPrompt].labelTargets = <<"red", "cats", "dogs">>
    /\ Directives[ZeroPrompt].present /\ Directives[ZeroPrompt].indexTargets = << >>
    /\ Directives[TwicePrompt].indexTargets = <<3>>
    /\ ~Directives[BlankPrompt].present

\* the parser has been applied to that prompt in a field pass: the radio group under it
\* was resolved by its first label target, "blue"
BlueThenAttentionWitness ==
    /\ pc = "advance" /\ snapshot = PageBlue /\ Len(events) = 1
    /\ events[1].kind = "radio" /\ events[1].stage = "label"
    /\ snapshot.radios[1].labels[events[1].option] = "Blue"
    /\ Directives[snapshot.radios[1].prompt].labelTargets[1] = "blue"
    /\ Len(Directives[snapshot.radios[1].prompt].labelTargets) = 2

(***************************************************************************)
(* Properties of the answer-bank lookup and of the typed value.             *)
(***************************************************************************)
\* the entries of the bank whose question contains, or is contained in, the normalized
\* prompt, and those of which a keyword occurs in it
QuestionMatches(questionText) ==
    {e \in 1..Len(answers) :
        /\ answers[e].question # ""
        /\ LabelMatches(questionText, answers[e].question)}

KeywordMatches(questionText) ==
    {e \in 1..Len(answers) :
        \E k \in 1..Len(answers[e].keywords) : Includes(questionText, answers[e].keywords[k])}

\* the lookup in two passes: the first entry matching by question, else the first
\* matching by keyword, nothing for an empty prompt
QuestionFirst(questionText) ==
    IF questionText = "" THEN 0
    ELSE IF QuestionMatches(questionText) # {} THEN FindFirst(QuestionMatches(questionText))
    ELSE FindFirst(KeywordMatches(questionText))

\* C21 as stated: the entry findEntry returns for a prompt is the first entry of the whole
\* bank that matches by question, even when an earlier entry matches by keyword only; the
\* first entry matching by keyword only when none matches by question; none for an empty
\* prompt.
QuestionMatchPreferred ==
    \A k \in 1..Len(events) : events[k].entry = QuestionFirst(normalize(PromptOf(events[k])))

\* what findEntry does: one pass, the first entry matching by question or by keyword
FirstMatchOfEither ==
    \A k \in 1..Len(events) :
        events[k].entry =
            IF normalize(PromptOf(events[k])) = "" THEN 0
            ELSE FindFirst(QuestionMatches(normalize(PromptOf(events[k])))
                              \cup KeywordMatches(normalize(PromptOf(events[k]))))

\* the captures of the number pattern and of the quoted pattern, tabulated over the
\* prompts of the scripted pages ("" when the pattern does not match)
TypedCaptures ==
    [p \in Prompts |->
        [number |-> Trim(typedNumberMatch(ToLower(Trim(p)))),
         quoted |-> typedQuotedMatch(Trim(p), ToLower(Trim(p)))]]

\* C22 as stated: when a prompt matches both the pattern "type|enter|write the
\* number|digit N" and the pattern of a quoted string after type|enter|write, the typed
\* value of the directive is the digits N, not the quoted text.
TypedNumberPreferred ==
    \A p \in PromptsOf(snapshot) :
        (TypedCaptures[p].number # "" /\ TypedCaptures[p].quoted # "") =>
            Directives[p].typedValue = TypedCaptures[p].number

\* what the code does: the quoted text, trimmed, replaces the digits; the digits are the
\* typed value only when the quoted pattern does not match
TypedQuotedPreferred ==
    \A p \in PromptsOf(snapshot) :
        /\ TypedCaptures[p].quoted # "" =>
              Directives[p].typedValue = Trim(TypedCaptures[p].quoted)
        /\ (TypedCaptures[p].quoted = "" /\ TypedCaptures[p].number # "") =>
              Directives[p].typedValue = TypedCaptures[p].number

(***************************************************************************)
(* Properties of the checkbox set.                                          *)
(***************************************************************************)
\* the checkboxes the pass of the current step has clicked, and the stages they were
\* clicked in
BoxesClicked == {events[k].option : k \in {j \in 1..Len(events) : events[j].kind = "checkbox"}}
BoxStages == {events[k].stage : k \in {j \in 1..Len(events) : events[j].kind = "checkbox"}}

\* the checkboxes that were checked before the pass of the current step
BoxesChecked == {i \in 1..Len(snapshot.checkboxes.boxes) : snapshot.checkboxes.boxes[i].checked}

\* the checkboxes whose label matches one of the phrases
BoxesMatching(phrases) ==
    {i \in 1..Len(snapshot.checkboxes.boxes) :
        \E t \in 1..Len(phrases) :
            LabelMatches(normalize(snapshot.checkboxes.boxes[i].label), phrases[t])}

\* a field pass has run over a page with checkboxes
BoxesPassed == pc \in {"advance", "idle"} /\ Len(snapshot.checkboxes.boxes) > 0

\* C23 as stated: when the directive of a checkbox set has label targets, every checkbox
\* whose label matches a label target is checked after the pass, all the matching ones
\* and not only the first per target; and when some checkbox matches, nothing is clicked
\* for a bank answer or at random.
AllLabelMatchesChecked ==
    (BoxesPassed /\ BoxesMatching(Directives[snapshot.checkboxes.prompt].labelTargets) # {}) =>
        /\ BoxesMatching(Directives[snapshot.checkboxes.prompt].labelTargets)
              \subseteq BoxesClicked \cup BoxesChecked
        /\ BoxStages \subseteq {"attention"}

\* what the code does: per label target the first matching checkbox only
FirstLabelMatchChecked ==
    (BoxesPassed /\ BoxesMatching(Directives[snapshot.checkboxes.prompt].labelTargets) # {}) =>
        /\ BoxStages \subseteq {"attention"}
        /\ BoxesClicked \subseteq
              BoxesMatching(Directives[snapshot.checkboxes.prompt].labelTargets)
        /\ \A t \in 1..Len(Directives[snapshot.checkboxes.prompt].labelTargets) :
              LET hits == BoxesMatching(<<Directives[snapshot.checkboxes.prompt].labelTargets[t]>>)
              IN  hits # {} => FindFirst(hits) \in BoxesClicked \cup BoxesChecked

\* the checkboxes whose label matches an answer of the bank entry for the prompt
BoxesBankMatched ==
    IF findEntry(snapshot.checkboxes.prompt, answers) = 0 THEN {}
    ELSE BoxesMatching(NormalizedAnswers(
            answers[findEntry(snapshot.checkboxes.prompt, answers)]))

\* the directive of the checkbox set asks for no checkbox of the set
NoBoxRequired ==
    Len(CheckboxRequired([i \in 1..Len(snapshot.checkboxes.boxes) |->
                             normalize(snapshot.checkboxes.boxes[i].label)],
                         Directives[snapshot.checkboxes.prompt])) = 0

\* C27 as stated: in a checkbox set whose directive is not satisfied, when an answer of
\* the bank entry matches the label of some checkbox, checked already or not, the random
\* fallback does not run and only bank-matched checkboxes are clicked; and no checkbox
\* that was checked is unchecked by the pass.
BankMatchStopsRandom ==
    /\ (BoxesPassed /\ NoBoxRequired /\ BoxesBankMatched # {}) =>
          /\ BoxStages \subseteq {"bank"}
          /\ BoxesClicked \subseteq BoxesBankMatched
    /\ pc = "advance" => \A i \in BoxesChecked : page.checkboxes.boxes[i].checked

(***************************************************************************)
(* Properties of the end of a step and of the end of the run.               *)
(***************************************************************************)
\* the status a finished run has by the step counter, the page, the field changes and
\* the advance click of its last step, whatever its idle waits did
Outcome ==
    IF ~(step < maxSteps) THEN "max-steps-reached"
    ELSE IF events # << >> THEN "stalled-no-advance"
    ELSE IF hasCompletedSurvey(page) THEN "completed"
    ELSE "stalled-no-interaction"

\* C24: a timeout of the wait for network idle after an advance click does not end or
\* fail the run: the wait is always followed by the next test of the loop, one step
\* later, on the same page, and the status a run ends with does not depend on whether an
\* idle wait timed out.
IdleTimeoutSwallowed ==
    /\ [][pc = "idle" =>
             /\ pc' = "loop" /\ status' = "running" /\ step' = step + 1
             /\ page' = page /\ idleWaits' = idleWaits + 1]_vars
    /\ [](pc = "done" => status = Outcome)
    /\ [](status = "running" => idleWaits = step)

\* runs that went on after an idle wait timed out: one ended as completed, at the next
\* check
IdleTimeoutSwallowedWitness ==
    /\ pc = "done" /\ idleTimedOut /\ status = "completed" /\ step = 1 /\ maxSteps > 1

\* C25 as stated: a run does not end as max-steps-reached while the page shows completion
\* text: when the last advance click the cap allows leads to a page with a completion
\* phrase, the run ends as completed.
NoCapOnCompletedPage ==
    (pc = "done" /\ maxSteps > 0 /\ hasCompletedSurvey(page)) =>
        status # "max-steps-reached" /\ (advances = maxSteps => status = "completed")

\* C26 as stated: within a step the visible textareas have pairwise distinct keys, and a
\* textarea that was not judged open-ended is not filled with a long-form answer, which
\* could only be one generated for another textarea.
LongFormKeysDistinct ==
    LongFormBuilt =>
        /\ \A i, j \in 1..Len(snapshot.textareas) :
              i # j => answerKey(snapshot.textareas[i], i - 1)
                          # answerKey(snapshot.textareas[j], j - 1)
        /\ \A i \in 1..Len(snapshot.textareas) :
              ~shouldUseGpt(snapshot.textareas[i]) => ~FilledByLongForm(i)

\* what holds of the keys: a textarea filled with a long-form answer has the key of a
\* textarea generate was called for, and the answer is the one stored under that key
LongFormByKey ==
    (LongFormBuilt /\ pc \in {"advance", "idle"}) =>
        \A i \in 1..Len(snapshot.textareas) :
            FilledByLongForm(i) =>
                /\ answerKey(snapshot.textareas[i], i - 1) \in DOMAIN longFormAnswers
                /\ \E j \in Generated :
                      answerKey(snapshot.textareas[j], j - 1)
                         = answerKey(snapshot.textareas[i], i - 1)


(***************************************************************************)
(* Properties of the refund server, under ServerSpec.                       *)
(***************************************************************************)
\* a field of a request body that is present and a positive number
Positive(v) == v.kind = "number" /\ v.n > 0

\* a request body in which one of the three fields is missing
Incomplete(body) ==
    \/ body.walletAddress.kind = "undefined"
    \/ body.accountsClosed.kind = "undefined"
    \/ body.refundedSol.kind = "undefined"

\* a request body in which accountsClosed or refundedSol is a number that is not positive
Worthless(body) ==
    \/ body.accountsClosed.kind = "number" /\ body.accountsClosed.n <= 0
    \/ body.refundedSol.kind = "number" /\ body.refundedSol.n <= 0

\* a step that answers a POST /api/transactions request
Answered == response' # response \/ transactions' # transactions

\* C30: a POST /api/transactions request in which walletAddress, accountsClosed or
\* refundedSol is missing, or accountsClosed or refundedSol is not positive, is answered
\* with 400, leaves the list, the wallet set and the stats unchanged and broadcasts
\* nothing; only requests with all three fields present and positive add a transaction.
IncompleteRejected ==
    [][Answered =>
          /\ (Incomplete(response'.body) \/ Worthless(response'.body)) =>
                /\ response'.status = 400
                /\ UNCHANGED <<transactions, uniqueWallets, stats, sent>>
          /\ (transactions' # transactions) =>
                /\ response'.body.walletAddress.kind = "string"
                /\ Positive(response'.body.accountsClosed)
                /\ Positive(response'.body.refundedSol)]_vars

\* what the handler does reject: no wallet address, or a number that is not positive
FalsyOrWorthlessRejected ==
    [][Answered =>
          /\ (Falsy(response'.body.walletAddress) \/ Worthless(response'.body)) =>
                /\ response'.status = 400
                /\ UNCHANGED <<transactions, uniqueWallets, stats, sent>>
          /\ (transactions' # transactions) =>
                /\ response'.status = 201
                /\ response'.body.walletAddress.kind = "string"
                /\ ~Worthless(response'.body)]_vars

\* a request without accountsClosed has been answered 201 and stored
StoredIncomplete ==
    /\ response.status = 201 /\ Incomplete(response.body)
    /\ transactions[1].accountsClosed = response.body.accountsClosed
    /\ transactions[1].refundedSol = response.body.refundedSol

\* the distinct walletAddress values among the stored transactions
StoredWallets(list) == {list[k].walletAddress : k \in 1..Len(list)}

\* the sum of a field over a list, from its tail
RECURSIVE SumFromTail(_, _)
SumFromTail(list, field) ==
    IF list = << >> THEN Number(0)
    ELSE Plus(list[1][field], SumFromTail(Tail(list), field))

\* the list as it was when the transaction was added: the transaction and all behind it
ListAsOf(transaction) ==
    LET at == {k \in 1..Len(transactions) : transactions[k] = transaction}
    IN  IF at = {} THEN << >> ELSE SubSeq(transactions, Min(at), Len(transactions))

NewestFirst ==
    \A k \in 1..(Len(transactions) - 1) : transactions[k].id > transactions[k + 1].id

StatsBroadcasts == {k \in 1..Len(sent) : sent[k].via = "broadcast" /\ sent[k].type = "stats"}

StatsFollowTransaction ==
    \A k \in StatsBroadcasts :
        /\ k > 1
        /\ sent[k - 1].via = "broadcast" /\ sent[k - 1].type = "transaction"
        /\ LET list == ListAsOf(sent[k - 1].transaction[1])
           IN  /\ list # << >>
               /\ sent[k].stats[1].totalUsers = Cardinality(StoredWallets(list))
               /\ sent[k].stats[1].totalAccountsClosed = SumFromTail(list, "accountsClosed")

Chain ==
    {<<"disconnected", "connecting">>, <<"connecting", "scanning">>,
     <<"scanning", "ready">>, <<"ready", "refunding">>,
     <<"refunding", "success">>, <<"refunding", "error">>}

\* the timers whose callback runs in a step
FiredTimers == IF Cardinality(timers') < Cardinality(timers) THEN timers \ timers' ELSE {}

\* status moves along the chain, or back to disconnected
AlongChain ==
    walletState'.status # walletState.status =>
        \/ <<walletState.status, walletState'.status>> \in Chain
        \/ walletState'.status = "disconnected"

\* a timer of an earlier connect leaves the state of a later session alone
StaleTimersInert ==
    \A t \in FiredTimers : t.session # sessions => walletState' = walletState

\* no timer takes refunding or success back to scanning or ready
NoTimerAfterRefund ==
    \A t \in FiredTimers :
        walletState.status \in {"refunding", "success"} =>
            walletState'.status \notin {"scanning", "ready"}

\* C28: for any interleaving of connect, reset and refund clicks and the 600 ms and
\* 2000 ms timers, status moves only along disconnected -> connecting -> scanning ->
\* ready -> refunding -> success|error, or back to disconnected on reset; a timer of an
\* earlier connect never changes the state of a later session; and once status is
\* refunding or success no timer sets it back to scanning or ready.
StatusFollowsChain == [][AlongChain /\ StaleTimersInert /\ NoTimerAfterRefund]_vars

StatusAlongChain == [][AlongChain]_vars
StaleTimersNeverAct == [][StaleTimersInert]_vars
RefundNeverUndone == [][NoTimerAfterRefund]_vars

\* what the timers do guard: a timer whose provider is not the current one changes nothing
OtherProviderTimersInert ==
    [][\A t \in FiredTimers : t.provider # walletState.provider =>
            walletState' = walletState]_vars

\* up to the second connect every step from a status other than disconnected follows
\* the chain
FirstSessionAlongChain ==
    [][(sessions' = 1 /\ walletState.status # "disconnected") => AlongChain]_vars

=============================================================================
